---- MODULE Spec2Model ----
(***************************************************************************)
(* Book-structure detection (src/lib/pdf/detectStructure.ts) and chapter   *)
(* analysis (src/lib/pdf/analyzeBook.ts) of book-quest.                    *)
(*                                                                         *)
(* Strings are tuples of one-character strings.  A page text, as           *)
(* extractPdfText produces it (whitespace collapsed to single spaces,      *)
(* trimmed), is the record [head, fill]: the characters `head` followed by *)
(* `fill` copies of the filler word "zz", all separated by single spaces.  *)
(***************************************************************************)
EXTENDS Integers, Sequences, FiniteSets, TLC

VARIABLES
    hasApiKey,      \* Boolean(process.env.OPENAI_API_KEY || ANTHROPIC_API_KEY)
    pages,          \* pages: string[] (index i+1 holds 0-based page i)
    numPages,       \* pdf.numPages of the buffer handed to detectBookStructure
    pc,             \* position inside detectBookStructure
    linkChapters,   \* result of detectFromPdfLinks
    titleResult,    \* result of detectFromTitleMatching
    llmChapters,    \* result of detectFromLlmSampling
    structure,      \* the BookStructure returned by detectBookStructure
    invoked,        \* the tiers invoked so far, in order
    metaCalls,      \* number of extractBookMetadata calls made
    raised,         \* TRUE when an exception escaped to the caller
    threwIn,        \* the calls (tiers, metadata) whose parsing or generation threw
    apc,            \* position inside analyzeChaptersWithContext
    batchStart,     \* loop variable of analyzeChaptersWithContext
    task,           \* per chapter index: "idle", "calling" (generation call in flight),
                    \* "resolving" (returned without a call), "settled", "rejected"
    outcome,        \* per chapter index: "none", "no-key", "threw", "generated"
    handed,         \* per chapter index: the previousContext handed at launch
    results,        \* results: ChapterAnalysis[] (slots)
    writes,         \* per chapter index: who wrote the slot, in order
    launchedAt,     \* per chapter index: the slots written when it was launched
    outOfOrder,     \* TRUE once a chapter settled before one of a lower index
    returned,       \* the array returned by analyzeChaptersWithContext
    edit,           \* the arguments of editCoursePlan: currentPlan, userInstruction,
                    \* bookAnalysis, extractedPages
    epc,            \* position inside editCoursePlan
    calls,          \* the state reads and generation calls editCoursePlan made, in order
    discovery,      \* the chapters of the discovery response
    editResult,     \* the EditPlanResult returned by editCoursePlan
    editResponse,   \* the response of the edit-plan request
    request,        \* the upload request: userId given, the files of the form
    upc,            \* position inside the upload handler
    fileLoop,       \* the loop over the files: next index, combinedPages, primaryBuffer
    persisted,      \* what the handler has written: PDFs, extracted text, book analysis
    uploadFailures, \* the kinds of failure the request has met
    uploadResponse, \* the response of the upload request
    given,          \* the inputs a call is fixed to: the parse outcome of the PDF bytes,
                    \* the responses of the generation calls
    firstRun        \* the BookStructure an earlier run returned on the same inputs

detectVars == <<pc, linkChapters, titleResult, llmChapters, structure, invoked,
                metaCalls, raised, threwIn>>
analyzeVars == <<apc, batchStart, task, outcome, handed, results, writes, launchedAt,
                 outOfOrder, returned>>
editVars == <<edit, epc, calls, discovery, editResult, editResponse>>
uploadVars == <<request, upc, fileLoop, persisted, uploadFailures, uploadResponse>>
givenVars == <<given, firstRun>>
vars == <<hasApiKey, pages, numPages, uploadVars, givenVars, detectVars, analyzeVars,
          editVars>>

----------------------------------------------------------------------------
(* Bounds of the model *)

MaxPages == 31          \* the longest book
FillWords == 25         \* filler words on a long first page (detection)
MaxLinks == 3           \* link annotations on the scanned pages
MaxTitles == 2          \* chapterTitles of the TOC response
MaxBoundaries == 2      \* boundaries of the sampling response
MaxChapters == 7        \* chapters handed to analyzeChaptersWithContext
LongPageWords == 700    \* words of a long page (analysis)
MaxDiscovered == 2      \* chapters of the discovery response
LongBookPages == 241    \* totalPages of a long book (plan editing)
MaxUploadChapters == 3  \* chapters of a structure whose analysis an upload follows

----------------------------------------------------------------------------
(* Generic helpers *)

Min(a, b) == IF a < b THEN a ELSE b
Max(a, b) == IF a > b THEN a ELSE b

Range(s) == {s[i] : i \in DOMAIN s}

SeqsUpTo(S, n) == UNION {[1..k -> S] : k \in 0..n}

RECURSIVE SumSeq(_)
SumSeq(s) == IF s = <<>> THEN 0 ELSE Head(s) + SumSeq(Tail(s))

\* Array.prototype.sort with comparator (a, b) => key(a) - key(b): stable.
\* keys[i] is the key of s[i].
SortBy(s, keys) ==
    LET n == Len(s)
        Rank(i) == Cardinality({j \in 1..n :
                       \/ keys[j] < keys[i]
                       \/ (keys[j] = keys[i] /\ j < i)}) + 1
    IN [r \in 1..n |-> s[CHOOSE i \in 1..n : Rank(i) = r]]

----------------------------------------------------------------------------
(* Strings *)

LowerLetters == <<"a","b","c","d","e","f","g","h","i","j","k","l","m",
                  "n","o","p","q","r","s","t","u","v","w","x","y","z">>
UpperLetters == <<"A","B","C","D","E","F","G","H","I","J","K","L","M",
                  "N","O","P","Q","R","S","T","U","V","W","X","Y","Z">>
DigitChars == {"0","1","2","3","4","5","6","7","8","9"}
WhiteChars == {" ", "\n", "\t"}

\* the lower-case letter of an upper-case letter
LowerOf == [c \in {UpperLetters[k] : k \in 1..26} |->
               LowerLetters[CHOOSE k \in 1..26 : UpperLetters[k] = c]]

\* String.prototype.toLowerCase
toLowerCase(s) ==
    [i \in 1..Len(s) |-> IF s[i] \in DOMAIN LowerOf THEN LowerOf[s[i]] ELSE s[i]]

\* the characters /[^a-z0-9\s]/ does not match
NormalChars == {LowerLetters[k] : k \in 1..26} \cup DigitChars \cup WhiteChars

IsNormalChar(c) == c \in NormalChars

\* x.toLowerCase().replace(/[^a-z0-9\s]/g, "")
normalize(s) == SelectSeq(toLowerCase(s), IsNormalChar)

\* String.prototype.includes
includes(hay, needle) ==
    \E i \in 0..(Len(hay) - Len(needle)) :
        SubSeq(hay, i + 1, i + Len(needle)) = needle

\* String.prototype.trim
RECURSIVE trimStart(_)
trimStart(s) ==
    IF s # <<>> /\ Head(s) \in WhiteChars THEN trimStart(Tail(s)) ELSE s
RECURSIVE trimEnd(_)
trimEnd(s) ==
    IF s # <<>> /\ s[Len(s)] \in WhiteChars
    THEN trimEnd(SubSeq(s, 1, Len(s) - 1)) ELSE s
trim(s) == trimEnd(trimStart(s))

----------------------------------------------------------------------------
(* Page texts *)

FillerText == <<" ", "z", "z">>

\* Number of words of a head (words separated by single spaces).
HeadWords(h) ==
    IF h = <<>> THEN 0
    ELSE Cardinality({i \in 1..Len(h) : h[i] = " "}) + 1

\* pages[p].length
PageLength(pg) ==
    IF pg.fill = 0 THEN Len(pg.head)
    ELSE IF pg.head = <<>> THEN 3 * pg.fill - 1
    ELSE Len(pg.head) + 3 * pg.fill

\* Number of words of the page text (0 for the empty page).
PageWords(pg) == HeadWords(pg.head) + pg.fill

\* The part of the page text a search for a needle without "z" has to look at:
\* the head and the first filler word.
PageProbe(pg) ==
    IF pg.fill = 0 THEN pg.head
    ELSE IF pg.head = <<>> THEN Tail(FillerText)
    ELSE pg.head \o FillerText

----------------------------------------------------------------------------
(* Results of the detection tiers.  A tier either throws, returns null, or   *)
(* returns chapters (Tier 2 also a title and an author).                      *)

Null == [threw |-> FALSE, ok |-> FALSE, chapters |-> <<>>, title |-> "", author |-> <<>>]
Thrown == [threw |-> TRUE, ok |-> FALSE, chapters |-> <<>>, title |-> "", author |-> <<>>]
Chapters(chs) == [threw |-> FALSE, ok |-> TRUE, chapters |-> chs, title |-> "", author |-> <<>>]

\* try { ... } catch { return null; }   with the handler removed
catchNullRethrows(r) == r

\* try { ... } catch { return null; }
catchNull(r) == IF r.threw THEN Null ELSE r

\* endPage of chapter i: the next chapter's startPage - 1, the last one's lastPage
fillEndPages(chs, lastPage) ==
    [i \in 1..Len(chs) |->
        [chs[i] EXCEPT !.endPage =
            IF i < Len(chs) THEN chs[i + 1].startPage - 1 ELSE lastPage]]

----------------------------------------------------------------------------
(* Tier 1: PDF link annotations on the first pages *)

TocPageLimit == 15

\* the loop over the annotations of pages 1..tocPages: the links pushed
scanLinks(pdf) ==
    LET tocPages == Min(TocPageLimit, pdf.numPages)
        keep(a) ==
            /\ a.onPage <= tocPages
            /\ a.subtype = "Link"
            /\ a.destIsNumber
            /\ trim(a.text) # <<>>
            /\ a.destPage >= 0
        kept == SelectSeq(pdf.annots, keep)
    IN [i \in 1..Len(kept) |->
           [text |-> trim(kept[i].text), destPage |-> kept[i].destPage]]

\* the sort keys of links.sort((a, b) => a.destPage - b.destPage)
DestPagesOf(links) == [i \in 1..Len(links) |-> links[i].destPage]

\* links.filter that keeps every link
uniqueByDestAll(links, seen) == links

\* links.filter with the `seen` set: the first occurrence per destination page
RECURSIVE uniqueByDest(_, _)
uniqueByDest(links, seen) ==
    IF links = <<>> THEN <<>>
    ELSE IF Head(links).destPage \in seen THEN uniqueByDest(Tail(links), seen)
    ELSE <<Head(links)>> \o uniqueByDest(Tail(links), seen \cup {Head(links).destPage})

MinLinks == 3

detectFromPdfLinks(pdf) ==
    catchNull(
        IF pdf.threw THEN Thrown
        ELSE LET links == scanLinks(pdf)
                 unique == uniqueByDest(SortBy(links, DestPagesOf(links)), {})
             IN IF Len(links) < MinLinks THEN Null
                ELSE IF Len(unique) < MinLinks THEN Null
                ELSE Chapters(
                    [i \in 1..Len(unique) |->
                        [title |-> unique[i].text,
                         startPage |-> unique[i].destPage,
                         endPage |-> IF i < Len(unique)
                                     THEN unique[i + 1].destPage - 1
                                     ELSE pdf.numPages - 1]]))

----------------------------------------------------------------------------
(* Tier 2: titles of the table of contents, located in the page texts *)

PageBreakLength == 18      \* "\n---PAGE BREAK---\n".length
MinTocLength == 100
MinTitleLength == 5
MinTitles == 2

\* pages.slice(0, Math.min(15, pages.length)).join("\n---PAGE BREAK---\n").trim().length
tocTrimLength(pgs) ==
    LET k == Min(TocPageLimit, Len(pgs))
        lens == [i \in 1..k |-> PageLength(pgs[i])]
    IN IF k = 0 THEN 0
       ELSE IF k = 1 THEN lens[1]
       ELSE SumSeq(lens) + PageBreakLength * (k - 1)
            - (IF lens[1] = 0 THEN 1 ELSE 0)
            - (IF lens[k] = 0 THEN 1 ELSE 0)

\* the sort keys of chapters.sort((a, b) => a.startPage - b.startPage)
StartPagesOf(chs) == [i \in 1..Len(chs) |-> chs[i].startPage]

\* the inner loop over p without the test of the title's length
titleOnPageAnyLength(pgs, p, normalizedTitle) ==
    includes(normalize(PageProbe(pgs[p + 1])), normalizedTitle)

\* the inner loop over p: does 0-based page p hold the normalized title
titleOnPage(pgs, p, normalizedTitle) ==
    /\ Len(normalizedTitle) > MinTitleLength
    /\ includes(normalize(PageProbe(pgs[p + 1])), normalizedTitle)

\* the loop over toc.chapterTitles: one chapter per located title, first page wins
RECURSIVE locateTitles(_, _)
locateTitles(pgs, titles) ==
    IF titles = <<>> THEN <<>>
    ELSE LET title == Head(titles)
             normalizedTitle == normalize(title)
             hits == {p \in 0..(Len(pgs) - 1) : titleOnPage(pgs, p, normalizedTitle)}
             first == CHOOSE p \in hits : \A q \in hits : p <= q
         IN (IF hits = {} THEN <<>>
             ELSE <<[title |-> title, startPage |-> first, endPage |-> first]>>)
            \o locateTitles(pgs, Tail(titles))

detectFromTitleMatching(pgs, key, toc) ==
    IF ~key THEN Null
    ELSE IF tocTrimLength(pgs) < MinTocLength THEN Null
    ELSE catchNull(
        IF toc.threw THEN Thrown
        ELSE IF Len(toc.chapterTitles) < MinTitles THEN Null
        ELSE LET chapters == locateTitles(pgs, toc.chapterTitles)
             IN IF Len(chapters) < MinTitles THEN Null
                ELSE [threw |-> FALSE, ok |-> TRUE,
                      chapters |-> fillEndPages(SortBy(chapters, StartPagesOf(chapters)),
                                                Len(pgs) - 1),
                      title |-> IF toc.bookTitle = "" THEN "Untitled" ELSE toc.bookTitle,
                      author |-> toc.author])

\* does detectFromTitleMatching reach its generateObject call
titleMatchingCalls(pgs, key) == key /\ tocTrimLength(pgs) >= MinTocLength

----------------------------------------------------------------------------
(* Tier 3: boundaries found by the model on sampled pages *)

MinSamplingPages == 10
MinBoundaries == 2
MinPatternHits == 2
MaxTitleLength == 100

\* pages[p].match(new RegExp(source, "i")) for a pattern that is a literal text:
\* the 0-based offsets at which the page matches
matchOffsets(pg, source) ==
    LET hay == toLowerCase(PageProbe(pg))
        needle == toLowerCase(source)
    IN {i \in 0..(Len(hay) - Len(needle)) :
            SubSeq(hay, i + 1, i + Len(needle)) = needle}

\* match[0].trim().slice(0, 100)
matchTitle(pg, source) ==
    LET offs == matchOffsets(pg, source)
        i == CHOOSE x \in offs : \A y \in offs : x <= y
        text == trim(SubSeq(PageProbe(pg), i + 1, i + Len(source)))
    IN SubSeq(text, 1, Min(MaxTitleLength, Len(text)))

\* the scan of all pages with the detected pattern: found[]
RECURSIVE scanPattern(_, _, _)
scanPattern(pgs, p, source) ==
    IF p >= Len(pgs) THEN <<>>
    ELSE (IF matchOffsets(pgs[p + 1], source) # {}
          THEN <<[title |-> matchTitle(pgs[p + 1], source), page |-> p]>>
          ELSE <<>>)
         \o scanPattern(pgs, p + 1, source)

\* the sort keys of boundaries.sort((a, b) => a.pageNumber - b.pageNumber)
PageNumbersOf(bs) == [i \in 1..Len(bs) |-> bs[i].pageNumber]

\* the sampled boundaries, sorted by pageNumber, the page numbers taken as 0-based
chaptersFromBoundariesUnconverted(boundaries, lastPage) ==
    LET sorted == SortBy(boundaries, PageNumbersOf(boundaries))
    IN [i \in 1..Len(sorted) |->
           [title |-> sorted[i].title,
            startPage |-> sorted[i].pageNumber,
            endPage |-> IF i < Len(sorted)
                        THEN sorted[i + 1].pageNumber - 1
                        ELSE lastPage]]

\* the sampled boundaries, sorted by pageNumber, 1-based converted to 0-based
chaptersFromBoundaries(boundaries, lastPage) ==
    LET sorted == SortBy(boundaries, PageNumbersOf(boundaries))
    IN [i \in 1..Len(sorted) |->
           [title |-> sorted[i].title,
            startPage |-> sorted[i].pageNumber - 1,
            endPage |-> IF i < Len(sorted)
                        THEN sorted[i + 1].pageNumber - 2
                        ELSE lastPage]]

detectFromLlmSampling(pgs, key, resp) ==
    IF ~key THEN Null
    ELSE IF Len(pgs) < MinSamplingPages THEN Null
    ELSE catchNull(
        IF resp.threw THEN Thrown
        ELSE IF Len(resp.boundaries) < MinBoundaries THEN Null
        ELSE IF resp.pattern.valid
        THEN LET found == scanPattern(pgs, 0, resp.pattern.source)
             IN IF Len(found) >= MinPatternHits
                THEN Chapters(
                    [i \in 1..Len(found) |->
                        [title |-> found[i].title,
                         startPage |-> found[i].page,
                         endPage |-> IF i < Len(found)
                                     THEN found[i + 1].page - 1
                                     ELSE Len(pgs) - 1]])
                ELSE Chapters(chaptersFromBoundaries(resp.boundaries, Len(pgs) - 1))
        ELSE Chapters(chaptersFromBoundaries(resp.boundaries, Len(pgs) - 1)))

\* does detectFromLlmSampling reach its generateObject call
llmSamplingCalls(pgs, key) == key /\ Len(pgs) >= MinSamplingPages

----------------------------------------------------------------------------
(* Tier 4: fixed chunks *)

chunkSize == 30

\* the loop `for (let i = 0; i < pages.length; i += chunkSize)`
RECURSIVE fixedChunksFrom(_, _, _)
fixedChunksFrom(pgs, i, chapters) ==
    IF i >= Len(pgs) THEN chapters
    ELSE fixedChunksFrom(pgs, i + chunkSize,
            Append(chapters,
                [title |-> <<"Section ", ToString(Len(chapters) + 1)>>,
                 startPage |-> i,
                 endPage |-> Min(i + chunkSize - 1, Len(pgs) - 1)]))

\* the whole book as one section
fixedChunksWhole(pgs) ==
    <<[title |-> <<"Section ", "1">>, startPage |-> 0, endPage |-> Len(pgs) - 1]>>

\* the `chapters` array kept across calls: a later call pushes onto the sections of
\* the earlier one
fixedChunksShared(pgs) ==
    fixedChunksFrom(pgs, 0,
        IF firstRun.detectionMethod = "fixed-chunks" THEN firstRun.chapters ELSE <<>>)

fixedChunks(pgs) == fixedChunksFrom(pgs, 0, <<>>)

----------------------------------------------------------------------------
(* Title and author of the book *)

NoMeta == [threw |-> FALSE, title |-> "Untitled Book", author |-> <<>>]

\* try { ... } catch { return { title: "Untitled Book" }; }  with the handler removed
catchUntitledRethrows(m) == m

\* try { ... } catch { return { title: "Untitled Book" }; }
catchUntitled(m) == IF m.threw THEN NoMeta ELSE m

extractBookMetadata(pgs, key, resp) ==
    IF ~key THEN NoMeta
    ELSE catchUntitled(
        IF resp.threw THEN [threw |-> TRUE, title |-> "", author |-> <<>>]
        ELSE [threw |-> FALSE,
              title |-> IF resp.title = "" THEN "Untitled Book" ELSE resp.title,
              author |-> resp.author])

----------------------------------------------------------------------------
(* Inputs: books, PDF annotations and responses of the generation calls *)

EmptyHead == <<>>
TocHead == <<"B","a","s","i","c","s"," ","M","e","t","h","o","d","s">>
BasicsHead == <<"1"," ","B","A","S","I","C","S">>
MethodsHead == <<"M","e","-","t","h","o","d","s">>

BasicsTitle == <<"B","a","s","i","c","s">>
MethodsTitle == <<"M","E","T","H","O","D","S","!">>
IntroTitle == <<"I","n","t","r","o">>
TheoryTitle == <<"T","h","e","o","r","y">>
TitlePool == {BasicsTitle, MethodsTitle, IntroTitle, TheoryTitle}

PageCounts == {1, 3, 10, MaxPages}

\* a book of n pages: the first three pages have the given heads, page 0 the given fill
Book(n, h0, f0, h1, h2) ==
    [i \in 1..n |->
        IF i = 1 THEN [head |-> h0, fill |-> f0]
        ELSE IF i = 2 THEN [head |-> h1, fill |-> 0]
        ELSE IF i = 3 THEN [head |-> h2, fill |-> 0]
        ELSE [head |-> EmptyHead, fill |-> 0]]

\* the layouts of the first three pages: <<head of page 0, fill of page 0, head of
\* page 1, head of page 2>>
Layouts ==
    { <<EmptyHead, 0, EmptyHead, EmptyHead>>,
      <<EmptyHead, FillWords, BasicsHead, MethodsHead>>,
      <<TocHead, FillWords, BasicsHead, MethodsHead>>,
      <<BasicsHead, 0, BasicsHead, EmptyHead>> }

\* pdf.numPages of the primary buffer: the pages of the first uploaded file, to which
\* the upload handler appends the pages of the other files
PrimaryPageCounts(n) == IF n = MaxPages THEN {n, n - 1} ELSE {n}

Books == {Book(n, l[1], l[2], l[3], l[4]) : n \in PageCounts, l \in Layouts}

Link(onPage, destPage, text) ==
    [onPage |-> onPage, subtype |-> "Link", destIsNumber |-> TRUE,
     destPage |-> destPage, text |-> text]

\* link annotations that pass the filter of the scan (the last one points past the
\* last page)
LinkPool(n) ==
    { Link(1, 0, <<"A">>),
      Link(1, 1, <<" ", "B", " ">>),
      Link(2, 1, <<"C">>),
      Link(1, 2, <<"D">>),
      Link(1, n, <<"E">>) }

\* annotations the scan skips: blank text, negative destination, a page after the
\* scanned ones, a destination that is no number, no link
SkippedPool ==
    { Link(1, 2, <<" ">>),
      Link(1, -1, <<"F">>),
      Link(TocPageLimit + 1, 3, <<"G">>),
      [Link(1, 3, <<"H">>) EXCEPT !.destIsNumber = FALSE],
      [Link(1, 3, <<"I">>) EXCEPT !.subtype = "Text"] }

\* the links of LinkPool that point at the first three pages, one per page
PlainLinkPool(n) == {l \in LinkPool(n) : l.onPage = 1 /\ l.destPage < n /\ l.destPage <= 2}

\* getDocumentProxy / getPage / getAnnotations: throws, or the annotations in scan
\* order: links of LinkPool, or a skipped annotation followed by links of PlainLinkPool
PdfOutcomes(n) ==
    {[threw |-> TRUE, numPages |-> n, annots |-> <<>>]}
    \cup {[threw |-> FALSE, numPages |-> n, annots |-> a] :
            a \in SeqsUpTo(LinkPool(n), MaxLinks)}
    \cup {[threw |-> FALSE, numPages |-> n, annots |-> <<x>> \o a] :
            x \in SkippedPool, a \in SeqsUpTo(PlainLinkPool(n), MaxLinks)}

\* generateObject of detectFromTitleMatching: throws, or {bookTitle, author?, chapterTitles}
TocResponses ==
    {[threw |-> TRUE, bookTitle |-> "", author |-> <<>>, chapterTitles |-> <<>>]}
    \cup {[threw |-> FALSE, bookTitle |-> bt, author |-> au, chapterTitles |-> ts] :
            bt \in {"", "My Book"}, au \in {<<"Ann">>},
            ts \in SeqsUpTo(TitlePool, MaxTitles)}

PatternPool ==
    { [valid |-> FALSE, source |-> <<"(">>],
      [valid |-> TRUE, source |-> <<"b","a","s","i","c","s">>],
      [valid |-> TRUE, source |-> <<"q","q">>],
      [valid |-> TRUE, source |-> <<>>] }

BoundaryPool(n) ==
    {[title |-> <<"S", ToString(k)>>, pageNumber |-> k] : k \in {0, 1, 2, 5, n + 1}}

\* generateObject of detectFromLlmSampling: throws, or {pattern, boundaries}
SamplingResponses(n) ==
    {[threw |-> TRUE, pattern |-> [valid |-> FALSE, source |-> <<>>], boundaries |-> <<>>]}
    \cup {[threw |-> FALSE, pattern |-> pt, boundaries |-> bs] :
            pt \in PatternPool, bs \in SeqsUpTo(BoundaryPool(n), MaxBoundaries)}

\* generateObject of extractBookMetadata: throws, or {title, author?}
MetaResponses ==
    {[threw |-> TRUE, title |-> "", author |-> <<>>]}
    \cup {[threw |-> FALSE, title |-> "", author |-> <<>>],
          [threw |-> FALSE, title |-> "My Book", author |-> <<"Ann">>]}

----------------------------------------------------------------------------
(* detectBookStructure *)

NoStructure == [title |-> "", author |-> <<>>, chapters |-> <<>>, detectionMethod |-> "none"]

\* if (linkChapters && linkChapters.length >= 3)
acceptLinks(r) == r.ok /\ Len(r.chapters) >= 3
\* if (titleResult && titleResult.chapters.length >= 2)
acceptTitlesNever(r) == FALSE
acceptTitles(r) == r.ok /\ Len(r.chapters) >= 2
\* if (llmChapters && llmChapters.length >= 2)
acceptLlm(r) == r.ok /\ Len(r.chapters) >= 2

\* an exception of a tier or of the metadata call reaches the caller
raise(thrown) ==
    /\ raised' = TRUE
    /\ pc' = "threw"
    /\ threwIn' = thrown
    /\ UNCHANGED <<structure, metaCalls>>

\* return {title: "Untitled Book", chapters, detectionMethod} with no call of
\* extractBookMetadata
returnWithoutMeta(thrown, chapters, method) ==
    /\ structure' = [title |-> NoMeta.title, author |-> NoMeta.author,
                     chapters |-> chapters, detectionMethod |-> method]
    /\ pc' = "done"
    /\ threwIn' = thrown
    /\ UNCHANGED <<metaCalls, raised>>

\* const meta = await extractBookMetadata(...); return {...meta, chapters, detectionMethod}
returnWithMeta(thrown, chapters, method) ==
    \E resp \in MetaResponses :
        LET meta == extractBookMetadata(pages, hasApiKey, resp)
            nowThrown == IF hasApiKey /\ resp.threw
                         THEN thrown \cup {"metadata"} ELSE thrown
        IN IF meta.threw THEN raise(nowThrown)
           ELSE /\ structure' = [title |-> meta.title, author |-> meta.author,
                                 chapters |-> chapters, detectionMethod |-> method]
                /\ metaCalls' = metaCalls + 1
                /\ pc' = "done"
                /\ threwIn' = nowThrown
                /\ UNCHANGED raised

\* the tier gave no acceptable result: go on with the next one
fallThrough(thrown, next) ==
    /\ pc' = next
    /\ threwIn' = thrown
    /\ UNCHANGED <<structure, metaCalls, raised>>

\* Tier 1 on a buffer that parses as `pdf`
detectTier1With(pdf) ==
    /\ pc = "tier1"
    /\ LET r == detectFromPdfLinks(pdf)
           thrown == IF pdf.threw THEN threwIn \cup {"pdf-links"} ELSE threwIn
       IN /\ linkChapters' = r
          /\ invoked' = Append(invoked, "pdf-links")
          /\ IF r.threw THEN raise(thrown)
             ELSE IF acceptLinks(r) THEN returnWithMeta(thrown, r.chapters, "pdf-links")
             ELSE fallThrough(thrown, "tier2")
    /\ UNCHANGED <<hasApiKey, pages, numPages, uploadVars, givenVars, titleResult, llmChapters, analyzeVars, editVars>>

detectTier1 ==
    /\ pc = "tier1"
    /\ \E pdf \in PdfOutcomes(numPages) : detectTier1With(pdf)

\* Tier 2 when the generation call answers `toc`
detectTier2With(toc) ==
    /\ pc = "tier2"
    /\ LET r == detectFromTitleMatching(pages, hasApiKey, toc)
           thrown == IF titleMatchingCalls(pages, hasApiKey) /\ toc.threw
                     THEN threwIn \cup {"title-match"} ELSE threwIn
       IN /\ titleResult' = r
          /\ invoked' = Append(invoked, "title-match")
          /\ IF r.threw THEN raise(thrown)
             ELSE IF acceptTitles(r)
             THEN /\ structure' = [title |-> r.title, author |-> r.author,
                                   chapters |-> r.chapters,
                                   detectionMethod |-> "title-match"]
                  /\ pc' = "done"
                  /\ threwIn' = thrown
                  /\ UNCHANGED <<metaCalls, raised>>
             ELSE fallThrough(thrown, "tier3")
    /\ UNCHANGED <<hasApiKey, pages, numPages, uploadVars, givenVars, linkChapters, llmChapters, analyzeVars, editVars>>

detectTier2 ==
    /\ pc = "tier2"
    /\ \E toc \in TocResponses : detectTier2With(toc)

\* Tier 3 when the generation call answers `resp`
detectTier3With(resp) ==
    /\ pc = "tier3"
    /\ LET r == detectFromLlmSampling(pages, hasApiKey, resp)
           thrown == IF llmSamplingCalls(pages, hasApiKey) /\ resp.threw
                     THEN threwIn \cup {"llm-detection"} ELSE threwIn
       IN /\ llmChapters' = r
          /\ invoked' = Append(invoked, "llm-detection")
          /\ IF r.threw THEN raise(thrown)
             ELSE IF acceptLlm(r) THEN returnWithMeta(thrown, r.chapters, "llm-detection")
             ELSE fallThrough(thrown, "tier4")
    /\ UNCHANGED <<hasApiKey, pages, numPages, uploadVars, givenVars, linkChapters, titleResult, analyzeVars, editVars>>

detectTier3 ==
    /\ pc = "tier3"
    /\ \E resp \in SamplingResponses(Len(pages)) : detectTier3With(resp)

detectTier4 ==
    /\ pc = "tier4"
    /\ invoked' = Append(invoked, "fixed-chunks")
    /\ returnWithMeta(threwIn, fixedChunks(pages), "fixed-chunks")
    /\ UNCHANGED <<hasApiKey, pages, numPages, uploadVars, givenVars, linkChapters, titleResult, llmChapters,
                   analyzeVars, editVars>>

AnalyzeIdle ==
    /\ apc = "idle"
    /\ batchStart = 0
    /\ task = <<>>
    /\ outcome = <<>>
    /\ handed = <<>>
    /\ results = <<>>
    /\ writes = <<>>
    /\ launchedAt = <<>>
    /\ outOfOrder = FALSE
    /\ returned = <<>>

NoEdit == [currentPlan |-> <<>>, userInstruction |-> <<>>,
           bookAnalysis |-> [title |-> "", author |-> <<>>, totalPages |-> 0,
                             chapters |-> <<>>, detectionMethod |-> "none"],
           extractedPages |-> [isNull |-> TRUE, pages |-> <<>>]]

NoEditResult ==
    [updatedPlan |-> <<>>, hasBookAnalysis |-> FALSE,
     updatedBookAnalysis |-> NoEdit.bookAnalysis, explanation |-> ""]

NoResponse == [status |-> 0]

NoRequest == [userIdGiven |-> FALSE, files |-> <<>>]

NoFileLoop ==
    [index |-> 1, combinedPages |-> <<>>, primaryBuffer |-> [isNull |-> TRUE, numPages |-> 0]]

NothingPersisted == [pdfs |-> 0, extractedText |-> FALSE, bookAnalysis |-> FALSE]

\* no inputs fixed beforehand: the PDF parse and the responses are met as the call runs
NoInputs == [tier |-> "any"]

GivenIdle ==
    /\ given = NoInputs
    /\ firstRun = NoStructure

UploadIdle ==
    /\ request = NoRequest
    /\ upc = "idle"
    /\ fileLoop = NoFileLoop
    /\ persisted = NothingPersisted
    /\ uploadFailures = {}
    /\ uploadResponse = NoResponse

EditIdle ==
    /\ edit = NoEdit
    /\ epc = "idle"
    /\ calls = <<>>
    /\ discovery = <<>>
    /\ editResult = NoEditResult
    /\ editResponse = NoResponse

DetectInit ==
    /\ hasApiKey \in BOOLEAN
    /\ pages \in Books
    /\ numPages \in PrimaryPageCounts(Len(pages))
    /\ pc = "tier1"
    /\ linkChapters = Null
    /\ titleResult = Null
    /\ llmChapters = Null
    /\ structure = NoStructure
    /\ invoked = <<>>
    /\ metaCalls = 0
    /\ raised = FALSE
    /\ threwIn = {}
    /\ AnalyzeIdle
    /\ EditIdle
    /\ UploadIdle
    /\ GivenIdle

DetectNext == detectTier1 \/ detectTier2 \/ detectTier3 \/ detectTier4

SpecDetect == DetectInit /\ [][DetectNext]_vars

----------------------------------------------------------------------------
(* detectBookStructure called twice on the same PDF bytes and pages.  The bytes *)
(* fix what the parse of the buffer yields; the generation calls answer anew.   *)

\* buffers: unreadable, no annotations, three links in reverse order, two links to
\* the same page, a link past the last page
RerunBuffers(n) ==
    {[threw |-> TRUE, numPages |-> n, annots |-> <<>>]}
    \cup {[threw |-> FALSE, numPages |-> n, annots |-> a] :
            a \in { <<>>,
                    <<Link(1, 2, <<"D">>), Link(1, 1, <<" ", "B", " ">>), Link(1, 0, <<"A">>)>>,
                    <<Link(1, 0, <<"A">>), Link(1, 1, <<" ", "B", " ">>), Link(2, 1, <<"C">>)>>,
                    <<Link(1, 0, <<"A">>), Link(1, 1, <<" ", "B", " ">>), Link(1, n, <<"E">>)>> }}

\* answers of the two generation calls of a run: the call throws, or titles that the
\* book may hold / boundaries with a pattern that does not compile
RerunTocResponses ==
    {[threw |-> TRUE, bookTitle |-> "", author |-> <<>>, chapterTitles |-> <<>>],
     [threw |-> FALSE, bookTitle |-> "My Book", author |-> <<"Ann">>,
      chapterTitles |-> <<BasicsTitle, MethodsTitle>>]}

RerunSamplingResponses ==
    {[threw |-> TRUE, pattern |-> [valid |-> FALSE, source |-> <<>>], boundaries |-> <<>>],
     [threw |-> FALSE, pattern |-> [valid |-> FALSE, source |-> <<"(">>],
      boundaries |-> <<[title |-> <<"S", "1">>, pageNumber |-> 1],
                       [title |-> <<"S", "5">>, pageNumber |-> 5]>>]}

RerunInit ==
    /\ hasApiKey \in BOOLEAN
    /\ pages \in Books
    /\ numPages \in PrimaryPageCounts(Len(pages))
    /\ given \in {[tier |-> "all", pdf |-> b] : b \in RerunBuffers(numPages)}
    /\ firstRun = NoStructure
    /\ pc = "tier1"
    /\ linkChapters = Null
    /\ titleResult = Null
    /\ llmChapters = Null
    /\ structure = NoStructure
    /\ invoked = <<>>
    /\ metaCalls = 0
    /\ raised = FALSE
    /\ threwIn = {}
    /\ AnalyzeIdle
    /\ EditIdle
    /\ UploadIdle

\* Tier 1 of either run parses the same bytes
rerunTier1 == given.tier = "all" /\ detectTier1With(given.pdf)

\* the first run has returned: detectBookStructure is called again
runAgain ==
    /\ pc = "done"
    /\ firstRun = NoStructure
    /\ firstRun' = structure
    /\ pc' = "tier1"
    /\ linkChapters' = Null
    /\ titleResult' = Null
    /\ llmChapters' = Null
    /\ structure' = NoStructure
    /\ invoked' = <<>>
    /\ metaCalls' = 0
    /\ threwIn' = {}
    /\ UNCHANGED <<hasApiKey, pages, numPages, given, raised, uploadVars, analyzeVars,
                   editVars>>

rerunTier2 == pc = "tier2" /\ \E toc \in RerunTocResponses : detectTier2With(toc)

rerunTier3 == pc = "tier3" /\ \E resp \in RerunSamplingResponses : detectTier3With(resp)

RerunNext == rerunTier1 \/ rerunTier2 \/ rerunTier3 \/ detectTier4 \/ runAgain

SpecRerun == RerunInit /\ [][RerunNext]_vars

----------------------------------------------------------------------------
(* One tier called on inputs fixed beforehand: detectFromPdfLinks on a buffer,   *)
(* detectFromTitleMatching and detectFromLlmSampling on the answer their        *)
(* generation call will give.                                                   *)

\* buffers with a second link to page 1, met last in the scan (on page 2)
DuplicateLinkOutcomes(n) ==
    {[threw |-> FALSE, numPages |-> n, annots |-> a \o <<Link(2, 1, <<"C">>)>>] :
        a \in [1..MaxLinks -> PlainLinkPool(n) \cup {Link(1, n, <<"E">>)}]}

\* a title of five characters that the pages of a book hold
ShortTitle == <<"B","a","s","i","c">>

\* answers of the Tier 2 call with the short title among the chapter titles
ShortTitleResponses ==
    {[threw |-> FALSE, bookTitle |-> "My Book", author |-> <<"Ann">>, chapterTitles |-> ts] :
        ts \in { <<ShortTitle, BasicsTitle>>,
                 <<ShortTitle, ShortTitle>>,
                 <<MethodsTitle, ShortTitle, BasicsTitle>> }}

TierInputs(n, len) ==
    {[tier |-> "pdf-links", pdf |-> p] :
        p \in PdfOutcomes(n) \cup DuplicateLinkOutcomes(n)}
    \cup {[tier |-> "title-match", toc |-> t] :
        t \in TocResponses \cup ShortTitleResponses}
    \cup {[tier |-> "llm-detection", sampling |-> r] : r \in SamplingResponses(len)}

TiersInit ==
    /\ hasApiKey \in BOOLEAN
    /\ pages \in Books
    /\ numPages \in PrimaryPageCounts(Len(pages))
    /\ given \in TierInputs(numPages, Len(pages))
    /\ firstRun = NoStructure
    /\ pc = IF given.tier = "pdf-links" THEN "tier1"
            ELSE IF given.tier = "title-match" THEN "tier2" ELSE "tier3"
    /\ linkChapters = Null
    /\ titleResult = Null
    /\ llmChapters = Null
    /\ structure = NoStructure
    /\ invoked = <<>>
    /\ metaCalls = 0
    /\ raised = FALSE
    /\ threwIn = {}
    /\ AnalyzeIdle
    /\ EditIdle
    /\ UploadIdle

callPdfLinks == given.tier = "pdf-links" /\ detectTier1With(given.pdf)

callTitleMatching == given.tier = "title-match" /\ detectTier2With(given.toc)

callLlmSampling == given.tier = "llm-detection" /\ detectTier3With(given.sampling)

TiersNext == callPdfLinks \/ callTitleMatching \/ callLlmSampling

SpecTiers == TiersInit /\ [][TiersNext]_vars

----------------------------------------------------------------------------
(* analyzeChapter *)

\* Array.prototype.slice(from, to): the 0-based indices taken from an array of len
sliceIndices(len, from, to) ==
    LET lo == IF from < 0 THEN Max(len + from, 0) ELSE Min(from, len)
        hi == IF to < 0 THEN Max(len + to, 0) ELSE Min(to, len)
    IN {k \in 0..(len - 1) : lo <= k /\ k < hi}

\* pages.slice(chapter.startPage, chapter.endPage + 1).join("\n\n").split(/\s+/).length
\* the joined text splits into its words, plus an empty string in front of a leading
\* and behind a trailing run of white space; the empty text splits into [""]
chapterWordCount(pgs, chapter) ==
    LET idx == sliceIndices(Len(pgs), chapter.startPage, chapter.endPage + 1)
        k == Cardinality(idx)
        first == CHOOSE x \in idx : \A y \in idx : x <= y
        last == CHOOSE x \in idx : \A y \in idx : x >= y
        words == SumSeq([j \in 1..k |-> PageWords(pgs[first + j])])
    IN IF k = 0 THEN 1
       ELSE IF words = 0 THEN (IF k = 1 THEN 1 ELSE 2)
       ELSE words + (IF PageWords(pgs[first + 1]) = 0 THEN 1 ELSE 0)
                  + (IF PageWords(pgs[last + 1]) = 0 THEN 1 ELSE 0)

WordsPerMinute == 250
MinReadingMinutes == 5

\* Math.round(a / b) for a >= 0, b > 0, rounded down instead
mathRoundDown(a, b) == a \div b

\* Math.round(a / b) for a >= 0, b > 0
mathRound(a, b) == (2 * a + b) \div (2 * b)

\* Math.max(5, Math.round(chapterText.split(/\s+/).length / 250))
heuristicMinutes(wordCount) == Max(MinReadingMinutes, mathRound(wordCount, WordsPerMinute))

\* `Content from "${title}".`
templateSummary(title) == <<"Content from ">> \o title

fallbackAnalysis(title, wordCount) ==
    [threw |-> FALSE,
     summary |-> templateSummary(title),
     keyConcepts |-> <<>>,
     learningObjectives |-> <<>>,
     prerequisites |-> <<>>,
     estimatedReadingMinutes |-> heuristicMinutes(wordCount)]

\* try { ... } catch { return fallback }  with the handler removed
catchFallbackRethrows(a, title, wordCount) == a

\* try { ... } catch { return fallback }
catchFallback(a, title, wordCount) ==
    IF a.threw THEN fallbackAnalysis(title, wordCount) ELSE a

\* previousChapterContext ? `\nThe previous chapter covered ...` : ""
contextBlock(previousContext) ==
    IF previousContext.isNull \/ previousContext.text = <<>> THEN <<>>
    ELSE <<"The previous chapter covered these key concepts: ">> \o previousContext.text

analyzeChapter(title, wordCount, key, resp) ==
    IF ~key THEN fallbackAnalysis(title, wordCount)
    ELSE catchFallback(
        IF resp.threw
        THEN [threw |-> TRUE, summary |-> <<>>, keyConcepts |-> <<>>,
              learningObjectives |-> <<>>, prerequisites |-> <<>>,
              estimatedReadingMinutes |-> 0]
        ELSE [threw |-> FALSE,
              summary |-> IF resp.summary = <<>> THEN templateSummary(title)
                          ELSE resp.summary,
              keyConcepts |-> resp.keyConcepts,
              learningObjectives |-> resp.learningObjectives,
              prerequisites |-> resp.prerequisites,
              estimatedReadingMinutes |->
                  IF resp.estimatedReadingMinutes > 0
                  THEN resp.estimatedReadingMinutes
                  ELSE heuristicMinutes(wordCount)],
        title, wordCount)

\* generateObject of analyzeChapter for 0-based chapter i: throws, a full answer, or
\* an answer with empty fields and no usable reading time
AnalysisResponses(i) ==
    { [threw |-> TRUE, summary |-> <<>>, keyConcepts |-> <<>>,
       learningObjectives |-> <<>>, prerequisites |-> <<>>,
       estimatedReadingMinutes |-> 0],
      [threw |-> FALSE, summary |-> <<"Summary ", ToString(i)>>,
       keyConcepts |-> <<"concept " \o ToString(i), "idea " \o ToString(i)>>,
       learningObjectives |-> <<"objective">>, prerequisites |-> <<"prerequisite">>,
       estimatedReadingMinutes |-> 12],
      [threw |-> FALSE, summary |-> <<>>, keyConcepts |-> <<>>,
       learningObjectives |-> <<>>, prerequisites |-> <<>>,
       estimatedReadingMinutes |-> 0] }

----------------------------------------------------------------------------
(* analyzeChaptersWithContext *)

concurrencyLimit == 5

EmptySlot ==
    [written |-> FALSE, chapterNumber |-> 0, title |-> <<>>, startPage |-> 0,
     endPage |-> 0, summary |-> <<>>, keyConcepts |-> <<>>, learningObjectives |-> <<>>,
     prerequisites |-> <<>>, estimatedReadingMinutes |-> 0]

NoContext == [isNull |-> TRUE, text |-> <<>>]

ChapterCount == Len(structure.chapters)
Indices == 0..(ChapterCount - 1)

\* keyConcepts.join(", ")
RECURSIVE joinConcepts(_)
joinConcepts(cs) ==
    IF cs = <<>> THEN <<>>
    ELSE IF Len(cs) = 1 THEN <<cs[1]>>
    ELSE <<cs[1], ", ">> \o joinConcepts(Tail(cs))

\* a single shared "current context": the concepts of the last chapter written so far
previousContextLastWritten(res, i) ==
    LET done == {k \in DOMAIN res : k < i /\ res[k].written}
    IN IF done = {} THEN NoContext
       ELSE [isNull |-> FALSE,
             text |-> joinConcepts(
                 res[CHOOSE k \in done : \A m \in done : m <= k].keyConcepts)]

\* no context is ever handed on
previousContextNever(res, i) == NoContext

\* let previousContext = null;
\* if (i > 0 && results[i - 1]) previousContext = results[i - 1].keyConcepts.join(", ")
previousContextOf(res, i) ==
    IF i > 0 /\ res[i - 1].written
    THEN [isNull |-> FALSE, text |-> joinConcepts(res[i - 1].keyConcepts)]
    ELSE NoContext

\* the whole rest is launched at once
batchEndAll(start, n) == n

\* const batchEnd = Math.min(batchStart + concurrencyLimit, structure.chapters.length)
batchEndOf(start, n) == Min(start + concurrencyLimit, n)

BatchOf(start) == {i \in Indices : start <= i /\ i < batchEndOf(start, ChapterCount)}

\* the batch goes on as soon as one of its promises is fulfilled (Promise.race)
batchSettledAny(t, batch) == \E i \in batch : t[i] = "settled"

\* await Promise.all(batchPromises): every promise of the batch is fulfilled
batchSettled(t, batch) == \A i \in batch : t[i] = "settled"

\* chapterNumber taken 0-based
slotEntryZeroBased(i, chapter, analysis) ==
    [written |-> TRUE, chapterNumber |-> i, title |-> chapter.title,
     startPage |-> chapter.startPage, endPage |-> chapter.endPage,
     summary |-> analysis.summary, keyConcepts |-> analysis.keyConcepts,
     learningObjectives |-> analysis.learningObjectives,
     prerequisites |-> analysis.prerequisites,
     estimatedReadingMinutes |-> analysis.estimatedReadingMinutes]

\* { chapterNumber: i + 1, title, startPage, endPage, ...analysis }
slotEntry(i, chapter, analysis) ==
    [written |-> TRUE, chapterNumber |-> i + 1, title |-> chapter.title,
     startPage |-> chapter.startPage, endPage |-> chapter.endPage,
     summary |-> analysis.summary, keyConcepts |-> analysis.keyConcepts,
     learningObjectives |-> analysis.learningObjectives,
     prerequisites |-> analysis.prerequisites,
     estimatedReadingMinutes |-> analysis.estimatedReadingMinutes]

\* results.push(...): the first slot not yet written
slotIndexPush(res, i) ==
    CHOOSE k \in DOMAIN res : ~res[k].written /\ \A m \in DOMAIN res : m < k => res[m].written

\* results[i] = ...: the slot the task of chapter i writes
slotIndex(res, i) == i

\* the loop body for i = batchStart .. batchEnd - 1: every chapter of the batch is
\* handed its context and its analysis is started; then the batch is awaited
launchBatch ==
    /\ apc = "loop"
    /\ batchStart < ChapterCount
    /\ LET batch == {i \in Indices :
                        batchStart <= i /\ i < batchEndOf(batchStart, ChapterCount)}
       IN /\ handed' = [i \in Indices |->
                           IF i \in batch THEN previousContextOf(results, i) ELSE handed[i]]
          /\ launchedAt' = [i \in Indices |->
                           IF i \in batch THEN {k \in Indices : results[k].written}
                           ELSE launchedAt[i]]
          /\ task' = [i \in Indices |->
                           IF i \in batch
                           THEN (IF hasApiKey THEN "calling" ELSE "resolving")
                           ELSE task[i]]
    /\ apc' = "awaiting"
    /\ UNCHANGED <<hasApiKey, pages, numPages, uploadVars, givenVars, detectVars, editVars, batchStart, outcome, results,
                   writes, outOfOrder, returned>>

\* the promise of chapter i settles with `analysis`: fulfilled, the .then callback
\* writes the slot; rejected, nothing is written
settleWith(i, analysis, how) ==
    LET chapter == structure.chapters[i + 1]
        k == slotIndex(results, i)
    IN /\ outcome' = [outcome EXCEPT ![i] = how]
       /\ IF analysis.threw
          THEN /\ task' = [task EXCEPT ![i] = "rejected"]
               /\ UNCHANGED <<results, writes>>
          ELSE /\ task' = [task EXCEPT ![i] = "settled"]
               /\ results' = [results EXCEPT ![k] = slotEntry(i, chapter, analysis)]
               /\ writes' = [writes EXCEPT ![k] = Append(@, i)]
       /\ outOfOrder' = (outOfOrder \/ \E j \in Indices :
                             j < i /\ task[j] \in {"calling", "resolving"})
       /\ UNCHANGED <<hasApiKey, pages, numPages, uploadVars, givenVars, detectVars, editVars, apc, batchStart, handed,
                      launchedAt, returned>>

\* the generation call of chapter i returns or throws
generationSettles(i) ==
    /\ task[i] = "calling"
    /\ \E resp \in AnalysisResponses(i) :
        LET chapter == structure.chapters[i + 1]
        IN settleWith(i,
               analyzeChapter(chapter.title, chapterWordCount(pages, chapter),
                              hasApiKey, resp),
               IF resp.threw THEN "threw" ELSE "generated")

\* without an API key analyzeChapter returns the fallback without any call
fallbackResolves(i) ==
    /\ task[i] = "resolving"
    /\ LET chapter == structure.chapters[i + 1]
       IN settleWith(i,
              analyzeChapter(chapter.title, chapterWordCount(pages, chapter),
                             hasApiKey, CHOOSE r \in AnalysisResponses(i) : r.threw),
              "no-key")

\* await Promise.all(batchPromises): it returns when every promise of the batch is
\* fulfilled (then batchStart += concurrencyLimit), it throws as soon as one is rejected
joinBatch ==
    /\ apc = "awaiting"
    /\ \/ batchSettled(task, BatchOf(batchStart))
       \/ \E i \in BatchOf(batchStart) : task[i] = "rejected"
    /\ IF \E i \in BatchOf(batchStart) : task[i] = "rejected"
       THEN /\ apc' = "threw"
            /\ UNCHANGED batchStart
       ELSE /\ batchStart' = batchStart + concurrencyLimit
            /\ apc' = "loop"
    /\ UNCHANGED <<hasApiKey, pages, numPages, uploadVars, givenVars, detectVars, editVars, task, outcome, handed, results,
                   writes, launchedAt, outOfOrder, returned>>

\* return results
returnResults ==
    /\ apc = "loop"
    /\ batchStart >= ChapterCount
    /\ returned' = results
    /\ apc' = "returned"
    /\ UNCHANGED <<hasApiKey, pages, numPages, uploadVars, givenVars, detectVars, editVars, batchStart, task, outcome,
                   handed, results, writes, launchedAt, outOfOrder>>

ChapterCounts == {0, 1, concurrencyLimit, concurrencyLimit + 1, MaxChapters}

\* books for the analysis: <<pages per chapter, words of the even pages, words of the
\* odd pages>>
AnalyzeLayouts ==
    { <<1, 0, 0>>, <<2, LongPageWords, LongPageWords>>, <<2, 0, LongPageWords>>,
      <<3, LongPageWords, 0>> }

AnalyzeBook(n, l) ==
    [i \in 1..(n * l[1]) |->
        [head |-> EmptyHead, fill |-> IF (i - 1) % 2 = 0 THEN l[2] ELSE l[3]]]

AnalyzeChapters(n, l) ==
    [c \in 1..n |->
        [title |-> <<"Chapter ", ToString(c)>>,
         startPage |-> (c - 1) * l[1],
         endPage |-> c * l[1] - 1]]

AnalyzeInit ==
    /\ hasApiKey \in BOOLEAN
    /\ \E n \in ChapterCounts, l \in AnalyzeLayouts :
        /\ pages = AnalyzeBook(n, l)
        /\ structure = [title |-> "My Book", author |-> <<>>,
                        chapters |-> AnalyzeChapters(n, l),
                        detectionMethod |-> "title-match"]
    /\ numPages = Len(pages)
    /\ pc = "done"
    /\ linkChapters = Null
    /\ titleResult = Null
    /\ llmChapters = Null
    /\ invoked = <<>>
    /\ metaCalls = 0
    /\ raised = FALSE
    /\ threwIn = {}
    /\ apc = "loop"
    /\ batchStart = 0
    /\ task = [i \in Indices |-> "idle"]
    /\ outcome = [i \in Indices |-> "none"]
    /\ handed = [i \in Indices |-> NoContext]
    /\ results = [i \in Indices |-> EmptySlot]
    /\ writes = [i \in Indices |-> <<>>]
    /\ launchedAt = [i \in Indices |-> {}]
    /\ outOfOrder = FALSE
    /\ returned = <<>>
    /\ EditIdle
    /\ UploadIdle
    /\ GivenIdle

AnalyzeNext ==
    \/ launchBatch
    \/ \E i \in Indices : generationSettles(i)
    \/ \E i \in Indices : fallbackResolves(i)
    \/ joinBatch
    \/ returnResults

SpecAnalyze == AnalyzeInit /\ [][AnalyzeNext]_vars

----------------------------------------------------------------------------
(* editCoursePlan and the edit-plan request *)

\* the alternatives of /miss|last chapter|missing|forgot|left out|not included|cut off|incomplete/i
MissingContentKeywords ==
    { <<"m","i","s","s">>,
      <<"l","a","s","t"," ","c","h","a","p","t","e","r">>,
      <<"m","i","s","s","i","n","g">>,
      <<"f","o","r","g","o","t">>,
      <<"l","e","f","t"," ","o","u","t">>,
      <<"n","o","t"," ","i","n","c","l","u","d","e","d">>,
      <<"c","u","t"," ","o","f","f">>,
      <<"i","n","c","o","m","p","l","e","t","e">> }

\* every instruction is taken as a report of missing content
looksLikeMissingContentAlways(userInstruction) == TRUE

\* const looksLikeMissingContent = /.../i.test(userInstruction)
looksLikeMissingContent(userInstruction) ==
    \E k \in MissingContentKeywords : includes(toLowerCase(userInstruction), k)

\* extractedPages?.length
hasExtractedPages(extractedPages) ==
    ~extractedPages.isNull /\ Len(extractedPages.pages) > 0

\* const lastDetectedPage = lastChapter ? lastChapter.endPage : 0
lastDetectedPage(bookAnalysis) ==
    IF bookAnalysis.chapters = <<>> THEN 0
    ELSE bookAnalysis.chapters[Len(bookAnalysis.chapters)].endPage

\* if (lastDetectedPage <= totalPages - 1)
hasUncoveredPagesInclusive(bookAnalysis) ==
    lastDetectedPage(bookAnalysis) <= bookAnalysis.totalPages - 1

\* if (lastDetectedPage < totalPages - 1)
hasUncoveredPages(bookAnalysis) ==
    lastDetectedPage(bookAnalysis) < bookAnalysis.totalPages - 1

PlanMinutes == 120

\* Math.round(((ch.endPage - ch.startPage + 1) / totalPages) * 120)
discoveredMinutes(ch, totalPages) ==
    mathRound((ch.endPage - ch.startPage + 1) * PlanMinutes, totalPages)

\* discovery.chapters.map((ch, i) => ({ chapterNumber: i + 1, ... }))
discoveredChapterRenumbered(ch, i, bookAnalysis) ==
    [chapterNumber |-> i + 1, title |-> ch.title,
     startPage |-> ch.startPage, endPage |-> ch.endPage, summary |-> ch.summary,
     keyConcepts |-> ch.keyConcepts, learningObjectives |-> ch.learningObjectives,
     prerequisites |-> <<>>,
     estimatedReadingMinutes |-> discoveredMinutes(ch, bookAnalysis.totalPages)]

\* discovery.chapters.map((ch, i) => ({ chapterNumber: chapters.length + i + 1, ... }))
\* for the 0-based index i
discoveredChapter(ch, i, bookAnalysis) ==
    [chapterNumber |-> Len(bookAnalysis.chapters) + i + 1, title |-> ch.title,
     startPage |-> ch.startPage, endPage |-> ch.endPage, summary |-> ch.summary,
     keyConcepts |-> ch.keyConcepts, learningObjectives |-> ch.learningObjectives,
     prerequisites |-> <<>>,
     estimatedReadingMinutes |-> discoveredMinutes(ch, bookAnalysis.totalPages)]

\* { ...bookAnalysis, chapters: [...bookAnalysis.chapters, ...discovery.chapters.map(...)] }
updatedBookAnalysisOf(bookAnalysis, discovered) ==
    [bookAnalysis EXCEPT !.chapters =
        @ \o [j \in 1..Len(discovered) |->
                 discoveredChapter(discovered[j], j - 1, bookAnalysis)]]

\* { title, description, estimatedHours, units } of the edited plan
planOf(editedPlan) ==
    [title |-> editedPlan.title, description |-> editedPlan.description,
     estimatedHours |-> editedPlan.estimatedHours, units |-> editedPlan.units]

\* the explanation of the early return (its dash written as a hyphen)
NoKeyExplanation == "No API key configured - unable to edit the plan automatically."

\* edit instructions, as the request handler passes them on (trimmed, not empty)
Instructions ==
    { <<"M","i","s","s","i","n","g"," ","e","n","d">>,
      <<"d","i","s","m","i","s","s">>,
      <<"L","a","s","t"," ","C","h","a","p","t","e","r">>,
      <<"I"," ","f","o","r","g","o","t">>,
      <<"l","e","f","t"," ","o","u","t">>,
      <<"n","o","t"," ","i","n","c","l","u","d","e","d">>,
      <<"c","u","t"," ","o","f","f">>,
      <<"I","N","C","O","M","P","L","E","T","E">>,
      <<"s","p","l","i","t"," ","u","n","i","t"," ","2">>,
      <<"l","e","f","t","o","u","t"," ","l","a","s","t">> }

\* a ChapterAnalysis of the book analysis handed in
AnalysedChapter(n, startPage, endPage) ==
    [chapterNumber |-> n, title |-> <<"Chapter ", ToString(n)>>,
     startPage |-> startPage, endPage |-> endPage, summary |-> <<"Summary ", ToString(n)>>,
     keyConcepts |-> <<"concept">>, learningObjectives |-> <<"objective">>,
     prerequisites |-> <<>>, estimatedReadingMinutes |-> 12]

BookAnalysisOf(totalPages, chapters, method) ==
    [title |-> "My Book", author |-> <<"Ann">>, totalPages |-> totalPages,
     chapters |-> chapters, detectionMethod |-> method]

\* book analyses: the last chapter ends at page 99, 118 or 119 of 120, at the last but
\* two of a long book, or there is no chapter at all
BookAnalyses ==
    { BookAnalysisOf(120, <<AnalysedChapter(1, 0, 49), AnalysedChapter(2, 50, 99)>>,
                     "title-match"),
      BookAnalysisOf(120, <<AnalysedChapter(1, 0, 118)>>, "pdf-links"),
      BookAnalysisOf(120, <<AnalysedChapter(1, 0, 59), AnalysedChapter(2, 60, 119)>>,
                     "fixed-chunks"),
      BookAnalysisOf(LongBookPages, <<AnalysedChapter(1, 0, LongBookPages - 3)>>,
                     "llm-detection"),
      BookAnalysisOf(3, <<>>, "fixed-chunks"),
      BookAnalysisOf(1, <<>>, "fixed-chunks") }

\* readExtractedText: null (no course id, no file, unreadable), no page, or pages
ExtractedPagesChoices ==
    { [isNull |-> TRUE, pages |-> <<>>],
      [isNull |-> FALSE, pages |-> <<>>],
      [isNull |-> FALSE, pages |-> Book(3, TocHead, 0, BasicsHead, MethodsHead)] }

CurrentPlan ==
    [title |-> "Plan", description |-> "A plan", estimatedHours |-> 10,
     units |-> <<"Unit 1", "Unit 2">>]

\* a chapter of the discovery response
Discovered(k, startPage, endPage) ==
    [title |-> <<"Found ", ToString(k)>>, summary |-> <<"About ", ToString(k)>>,
     keyConcepts |-> <<"found concept">>, learningObjectives |-> <<"found objective">>,
     startPage |-> startPage, endPage |-> endPage]

\* chapters the discovery may report for a book analysis: all uncovered pages, the
\* first uncovered page, a range whose endPage is before its startPage
DiscoveredPool(bookAnalysis) ==
    LET first == lastDetectedPage(bookAnalysis) + 1
    IN { Discovered(1, first, bookAnalysis.totalPages - 1),
         Discovered(2, first, first),
         Discovered(3, first + 1, first) }

\* generateObject of the discovery: throws, or {chapters}
DiscoveryResponses(bookAnalysis) ==
    {[threw |-> TRUE, chapters |-> <<>>]}
    \cup {[threw |-> FALSE, chapters |-> chs] :
            chs \in SeqsUpTo(DiscoveredPool(bookAnalysis), MaxDiscovered)}

\* generateObject of an edit: throws, or the edited plan with its explanation
PlanResponses(currentPlan) ==
    { [threw |-> TRUE, title |-> "", description |-> "", estimatedHours |-> 0,
       units |-> <<>>, explanation |-> ""],
      [threw |-> FALSE, title |-> currentPlan.title,
       description |-> currentPlan.description, estimatedHours |-> 12,
       units |-> Append(currentPlan.units, "Unit 3"), explanation |-> "Added a unit."],
      [threw |-> FALSE, title |-> "New plan", description |-> "", estimatedHours |-> 1,
       units |-> <<>>, explanation |-> ""] }

\* the early return is never taken
noApiKeyNever(key) == FALSE

\* if (!hasApiKey)
noApiKey(key) == ~key

\* an await of editCoursePlan threw: the promise is rejected
editThrows(call) ==
    /\ calls' = Append(calls, call)
    /\ epc' = "threw"
    /\ UNCHANGED <<discovery, editResult>>

\* editCoursePlan up to its first generation call: the early return without an API
\* key, loadUserStateDocs, the keyword test and the choice of the flow
editBegin ==
    /\ epc = "start"
    /\ IF noApiKey(hasApiKey)
       THEN /\ editResult' = [updatedPlan |-> edit.currentPlan, hasBookAnalysis |-> FALSE,
                              updatedBookAnalysis |-> NoEdit.bookAnalysis,
                              explanation |-> NoKeyExplanation]
            /\ epc' = "returned"
            /\ UNCHANGED <<calls, discovery>>
       ELSE \E docsThrew \in BOOLEAN :
               IF docsThrew THEN editThrows("loadUserStateDocs")
               ELSE /\ calls' = Append(calls, "loadUserStateDocs")
                    /\ epc' = IF /\ looksLikeMissingContent(edit.userInstruction)
                                 /\ hasExtractedPages(edit.extractedPages)
                                 /\ hasUncoveredPages(edit.bookAnalysis)
                              THEN "discovery" ELSE "standard"
                    /\ UNCHANGED <<discovery, editResult>>
    /\ UNCHANGED <<hasApiKey, pages, numPages, uploadVars, givenVars, detectVars, analyzeVars, edit, editResponse>>

\* const { object: discovery } = await generateObject(...) of the two-step flow
discoveryCall ==
    /\ epc = "discovery"
    /\ \E resp \in DiscoveryResponses(edit.bookAnalysis) :
        IF resp.threw THEN editThrows("discovery")
        ELSE /\ calls' = Append(calls, "discovery")
             /\ discovery' = resp.chapters
             /\ epc' = "merge"
             /\ UNCHANGED editResult
    /\ UNCHANGED <<hasApiKey, pages, numPages, uploadVars, givenVars, detectVars, analyzeVars, edit, editResponse>>

\* updatedBookAnalysis is built, the plan is merged by the second generateObject call
\* and { updatedPlan, updatedBookAnalysis, explanation } is returned
mergeCall ==
    /\ epc = "merge"
    /\ \E editedPlan \in PlanResponses(edit.currentPlan) :
        IF editedPlan.threw THEN editThrows("merge")
        ELSE /\ calls' = Append(calls, "merge")
             /\ editResult' =
                    [updatedPlan |-> planOf(editedPlan), hasBookAnalysis |-> TRUE,
                     updatedBookAnalysis |->
                         updatedBookAnalysisOf(edit.bookAnalysis, discovery),
                     explanation |-> editedPlan.explanation]
             /\ epc' = "returned"
             /\ UNCHANGED discovery
    /\ UNCHANGED <<hasApiKey, pages, numPages, uploadVars, givenVars, detectVars, analyzeVars, edit, editResponse>>

\* Standard edit: single generateObject call; { updatedPlan, explanation } is returned
standardCall ==
    /\ epc = "standard"
    /\ \E editedPlan \in PlanResponses(edit.currentPlan) :
        IF editedPlan.threw THEN editThrows("standard")
        ELSE /\ calls' = Append(calls, "standard")
             /\ editResult' =
                    [updatedPlan |-> planOf(editedPlan), hasBookAnalysis |-> FALSE,
                     updatedBookAnalysis |-> NoEdit.bookAnalysis,
                     explanation |-> editedPlan.explanation]
             /\ epc' = "returned"
             /\ UNCHANGED discovery
    /\ UNCHANGED <<hasApiKey, pages, numPages, uploadVars, givenVars, detectVars, analyzeVars, edit, editResponse>>

\* the end of the edit-plan branch of POST: the JSON of the result, or the 500 of the
\* catch around the handler
respondEditPlan ==
    /\ epc \in {"returned", "threw"}
    /\ editResponse = NoResponse
    /\ editResponse' =
          IF epc = "returned"
          THEN [status |-> 200, plan |-> editResult.updatedPlan,
                bookAnalysisIsNull |-> ~editResult.hasBookAnalysis,
                bookAnalysis |-> editResult.updatedBookAnalysis,
                explanation |-> editResult.explanation]
          ELSE [status |-> 500]
    /\ UNCHANGED <<hasApiKey, pages, numPages, uploadVars, givenVars, detectVars, analyzeVars, edit, epc, calls,
                   discovery, editResult>>

DetectIdle ==
    /\ pages = <<>>
    /\ numPages = 0
    /\ pc = "idle"
    /\ linkChapters = Null
    /\ titleResult = Null
    /\ llmChapters = Null
    /\ structure = NoStructure
    /\ invoked = <<>>
    /\ metaCalls = 0
    /\ raised = FALSE
    /\ threwIn = {}

EditInit ==
    /\ hasApiKey \in BOOLEAN
    /\ DetectIdle
    /\ AnalyzeIdle
    /\ edit \in [currentPlan : {CurrentPlan}, userInstruction : Instructions,
                  bookAnalysis : BookAnalyses, extractedPages : ExtractedPagesChoices]
    /\ epc = "start"
    /\ calls = <<>>
    /\ discovery = <<>>
    /\ editResult = NoEditResult
    /\ editResponse = NoResponse
    /\ UploadIdle
    /\ GivenIdle

EditNext == editBegin \/ discoveryCall \/ mergeCall \/ standardCall \/ respondEditPlan

SpecEdit == EditInit /\ [][EditNext]_vars

----------------------------------------------------------------------------
(* The upload request: POST of the upload route and analyzeBook *)

MAX_FILES == 5
MAX_FILE_SIZE == 64        \* in MB

\* a form entry that is a PDF file whose text extraction gives `pgs`
PdfFile(pgs) ==
    [isFile |-> TRUE, pdfName |-> TRUE, size |-> 1,
     extraction |-> [threw |-> FALSE, totalPages |-> Len(pgs), pages |-> pgs]]

\* a PDF file that getDocumentProxy / getPage / getTextContent cannot read
UnreadableFile == [PdfFile(<<>>) EXCEPT !.extraction.threw = TRUE]

ShortBook == Book(1, EmptyHead, 0, EmptyHead, EmptyHead)
LongBook == Book(10, TocHead, FillWords, BasicsHead, MethodsHead)

\* the `files` of the form
UploadedFiles ==
    { <<>>,
      <<PdfFile(ShortBook)>>,
      <<PdfFile(LongBook)>>,
      <<PdfFile(LongBook), PdfFile(ShortBook)>>,
      <<PdfFile(<<>>)>>,
      <<PdfFile(<<>>), PdfFile(ShortBook)>>,
      <<UnreadableFile>>,
      <<PdfFile(ShortBook), UnreadableFile>>,
      <<[PdfFile(ShortBook) EXCEPT !.isFile = FALSE]>>,
      <<PdfFile(ShortBook), [PdfFile(ShortBook) EXCEPT !.pdfName = FALSE]>>,
      <<[PdfFile(ShortBook) EXCEPT !.size = MAX_FILE_SIZE + 1]>>,
      [i \in 1..(MAX_FILES + 1) |-> PdfFile(ShortBook)] }

\* NextResponse.json({ error }, { status })
errorResponse(status) == [status |-> status]

\* the handler answers with an error
respondError(status, failure) ==
    /\ uploadResponse' = errorResponse(status)
    /\ uploadFailures' = uploadFailures \cup failure
    /\ upc' = "responded"

\* the checks of userId and of the number of files
uploadValidate ==
    /\ upc = "start"
    /\ IF ~request.userIdGiven \/ Len(request.files) = 0
          \/ Len(request.files) > MAX_FILES
       THEN respondError(400, {"validation"})
       ELSE /\ upc' = "loop"
            /\ UNCHANGED <<uploadResponse, uploadFailures>>
    /\ UNCHANGED <<givenVars, hasApiKey, pages, numPages, request, fileLoop, persisted, detectVars,
                   analyzeVars, editVars>>

\* one iteration of `for (const file of files)`: the checks of the file, savePdfUpload,
\* extractPdfText, combinedPages
uploadFile ==
    /\ upc = "loop"
    /\ fileLoop.index <= Len(request.files)
    /\ LET file == request.files[fileLoop.index]
       IN IF ~file.isFile
          THEN /\ fileLoop' = [fileLoop EXCEPT !.index = @ + 1]
               /\ UNCHANGED <<upc, uploadResponse, uploadFailures, persisted>>
          ELSE IF ~file.pdfName \/ file.size > MAX_FILE_SIZE
          THEN /\ respondError(400, {"validation"})
               /\ UNCHANGED <<fileLoop, persisted>>
          ELSE \E saved \in BOOLEAN :
                IF ~saved
                THEN /\ respondError(500, {"persistence"})
                     /\ UNCHANGED <<fileLoop, persisted>>
                ELSE /\ persisted' = [persisted EXCEPT !.pdfs = @ + 1]
                     /\ IF file.extraction.threw
                        THEN /\ respondError(500, {"extraction"})
                             /\ UNCHANGED fileLoop
                        ELSE /\ fileLoop' =
                                  [index |-> fileLoop.index + 1,
                                   combinedPages |->
                                       fileLoop.combinedPages \o file.extraction.pages,
                                   primaryBuffer |->
                                       IF fileLoop.primaryBuffer.isNull
                                       THEN [isNull |-> FALSE,
                                             numPages |-> file.extraction.totalPages]
                                       ELSE fileLoop.primaryBuffer]
                             /\ UNCHANGED <<upc, uploadResponse, uploadFailures>>
    /\ UNCHANGED <<givenVars, hasApiKey, pages, numPages, request, detectVars, analyzeVars, editVars>>

\* the test is left out
noReadableContentNever(primaryBuffer, combinedPages) == FALSE

\* if (!primaryBuffer || !combinedPages.length)
noReadableContent(primaryBuffer, combinedPages) ==
    primaryBuffer.isNull \/ Len(combinedPages) = 0

\* after the loop: the check for readable content and the call of analyzeBook, with
\* the extracted pages saved only after the analysis (never, in this handler)
uploadAnalyzeUnsaved ==
    /\ upc = "loop"
    /\ fileLoop.index > Len(request.files)
    /\ IF noReadableContent(fileLoop.primaryBuffer, fileLoop.combinedPages)
       THEN /\ respondError(400, {"no-content"})
            /\ UNCHANGED <<persisted, pages, numPages, pc>>
       ELSE /\ pages' = fileLoop.combinedPages
            /\ numPages' = fileLoop.primaryBuffer.numPages
            /\ pc' = "tier1"
            /\ upc' = "analyzing"
            /\ UNCHANGED <<persisted, uploadResponse, uploadFailures>>
    /\ UNCHANGED <<givenVars, hasApiKey, request, fileLoop, linkChapters, titleResult, llmChapters,
                   structure, invoked, metaCalls, raised, threwIn, analyzeVars, editVars>>

\* after the loop: the check for readable content, saveExtractedText, and the call of
\* analyzeBook, which starts detectBookStructure(primaryBuffer, combinedPages)
uploadAnalyze ==
    /\ upc = "loop"
    /\ fileLoop.index > Len(request.files)
    /\ IF noReadableContent(fileLoop.primaryBuffer, fileLoop.combinedPages)
       THEN /\ respondError(400, {"no-content"})
            /\ UNCHANGED <<persisted, pages, numPages, pc>>
       ELSE \E saved \in BOOLEAN :
            IF ~saved
            THEN /\ respondError(500, {"persistence"})
                 /\ UNCHANGED <<persisted, pages, numPages, pc>>
            ELSE /\ persisted' = [persisted EXCEPT !.extractedText = TRUE]
                 /\ pages' = fileLoop.combinedPages
                 /\ numPages' = fileLoop.primaryBuffer.numPages
                 /\ pc' = "tier1"
                 /\ upc' = "analyzing"
                 /\ UNCHANGED <<uploadResponse, uploadFailures>>
    /\ UNCHANGED <<givenVars, hasApiKey, request, fileLoop, linkChapters, titleResult, llmChapters,
                   structure, invoked, metaCalls, raised, threwIn, analyzeVars, editVars>>

\* analyzeBook: const chapters = await analyzeChaptersWithContext(structure, pages)
uploadOrchestrate ==
    /\ upc = "analyzing"
    /\ pc = "done"
    /\ apc = "idle"
    /\ apc' = "loop"
    /\ batchStart' = 0
    /\ task' = [i \in Indices |-> "idle"]
    /\ outcome' = [i \in Indices |-> "none"]
    /\ handed' = [i \in Indices |-> NoContext]
    /\ results' = [i \in Indices |-> EmptySlot]
    /\ writes' = [i \in Indices |-> <<>>]
    /\ launchedAt' = [i \in Indices |-> {}]
    /\ UNCHANGED <<hasApiKey, pages, numPages, uploadVars, givenVars, detectVars, editVars,
                   outOfOrder, returned>>

\* the BookAnalysis analyzeBook returns
bookAnalysisOf(struct, pgs, chapters) ==
    [title |-> struct.title, author |-> struct.author, totalPages |-> Len(pgs),
     chapters |-> chapters, detectionMethod |-> struct.detectionMethod]

\* analyzeBook returns or throws; saveBookAnalysis; the response with the book
\* analysis, or the 500 of the catch around the handler
uploadRespond ==
    /\ upc = "analyzing"
    /\ apc \in {"returned", "threw"} \/ pc = "threw"
    /\ IF apc # "returned"
       THEN /\ respondError(500, {"analysis"})
            /\ UNCHANGED persisted
       ELSE \E saved \in BOOLEAN :
            IF ~saved
            THEN /\ respondError(500, {"persistence"})
                 /\ UNCHANGED persisted
            ELSE /\ persisted' = [persisted EXCEPT !.bookAnalysis = TRUE]
                 /\ uploadResponse' =
                        [status |-> 200,
                         bookAnalysis |-> bookAnalysisOf(structure, pages, returned)]
                 /\ upc' = "responded"
                 /\ UNCHANGED uploadFailures
    /\ UNCHANGED <<givenVars, hasApiKey, pages, numPages, request, fileLoop, detectVars, analyzeVars,
                   editVars>>

UploadInit ==
    /\ hasApiKey \in BOOLEAN
    /\ GivenIdle
    /\ DetectIdle
    /\ AnalyzeIdle
    /\ EditIdle
    /\ request \in [userIdGiven : BOOLEAN, files : UploadedFiles]
    /\ upc = "start"
    /\ fileLoop = NoFileLoop
    /\ persisted = NothingPersisted
    /\ uploadFailures = {}
    /\ uploadResponse = NoResponse

UploadNext ==
    \/ uploadValidate
    \/ uploadFile
    \/ uploadAnalyze
    \/ (upc = "analyzing" /\ DetectNext /\ Len(structure'.chapters) <= MaxUploadChapters)
    \/ uploadOrchestrate
    \/ (upc = "analyzing" /\ apc # "idle" /\ AnalyzeNext)
    \/ uploadRespond

SpecUpload == UploadInit /\ [][UploadNext]_vars

----------------------------------------------------------------------------
(* Claims about detectBookStructure *)

TierOrder == <<"pdf-links", "title-match", "llm-detection", "fixed-chunks">>

Returned == pc = "done"

\* sorted ascending by startPage, pairwise non-overlapping, endPage >= startPage
WellFormed(chs) ==
    /\ \A i \in 1..Len(chs) : chs[i].endPage >= chs[i].startPage
    /\ \A i, j \in 1..Len(chs) :
        i < j => /\ chs[i].startPage <= chs[j].startPage
                 /\ chs[i].endPage < chs[j].startPage

\* C1: every BookStructure returned by detectBookStructure has its chapters sorted
\* ascending by startPage, pairwise non-overlapping, each with endPage >= startPage.
C1_ChaptersWellFormed == Returned => WellFormed(structure.chapters)

\* C2: detectBookStructure never fails: no exception reaches the caller, a call that
\* threw left its tier with no result and the next tier was tried, and as long as no
\* structure is returned a further step is possible.
C2_NeverFails ==
    /\ ~raised
    /\ pc # "threw"
    /\ ("pdf-links" \in threwIn =>
            linkChapters = Null /\ (pc = "tier2" \/ "title-match" \in Range(invoked)))
    /\ ("title-match" \in threwIn =>
            titleResult = Null /\ (pc = "tier3" \/ "llm-detection" \in Range(invoked)))
    /\ ("llm-detection" \in threwIn =>
            llmChapters = Null /\ (pc = "tier4" \/ "fixed-chunks" \in Range(invoked)))
    /\ (Returned => structure.detectionMethod \in Range(TierOrder))
    /\ (~Returned => ENABLED DetectNext)

\* every call that can throw has thrown, and a structure is returned all the same
C2_Witness ==
    /\ Returned
    /\ threwIn = {"pdf-links", "title-match", "llm-detection", "metadata"}
    /\ structure.detectionMethod = "fixed-chunks"

\* the number of chapters a tier returned (none for null)
Count(r) == Len(r.chapters)

\* C3: the tiers are invoked in the order pdf-links, title-match, llm-detection,
\* fixed-chunks, a tier only after every earlier one returned fewer chapters than its
\* minimum (3, 2, 2), and detectionMethod names the first tier that met its minimum.
C3_TierOrder ==
    /\ Len(invoked) <= 4
    /\ \A i \in 1..Len(invoked) : invoked[i] = TierOrder[i]
    /\ (Len(invoked) >= 2 => Count(linkChapters) < 3)
    /\ (Len(invoked) >= 3 => Count(titleResult) < 2)
    /\ (Len(invoked) >= 4 => Count(llmChapters) < 2)
    /\ (Returned =>
          /\ structure.detectionMethod = invoked[Len(invoked)]
          /\ structure.detectionMethod =
                IF Count(linkChapters) >= 3 THEN "pdf-links"
                ELSE IF Count(titleResult) >= 2 THEN "title-match"
                ELSE IF Count(llmChapters) >= 2 THEN "llm-detection"
                ELSE "fixed-chunks")

\* the third tier is accepted after the first two returned too little
C3_Witness ==
    /\ Returned
    /\ invoked = <<"pdf-links", "title-match", "llm-detection">>
    /\ structure.detectionMethod = "llm-detection"
    /\ Count(llmChapters) >= 2

\* C12: without an API key and without an accepted link result, detectBookStructure
\* returns detectionMethod "fixed-chunks" with ceil(totalPages / 30) chapters; chapter k
\* is titled "Section k" and spans pages 30(k-1) .. min(30k - 1, totalPages - 1).
C12_FixedChunks ==
    (Returned /\ ~hasApiKey /\ Count(linkChapters) < 3) =>
        LET totalPages == Len(pages)
            chs == structure.chapters
        IN /\ structure.detectionMethod = "fixed-chunks"
           /\ Len(chs) = (totalPages + 29) \div 30
           /\ \A k \in 1..Len(chs) :
                /\ chs[k].title = <<"Section ", ToString(k)>>
                /\ chs[k].startPage = 30 * (k - 1)
                /\ chs[k].endPage = Min(30 * k - 1, totalPages - 1)
           /\ chs[1].startPage = 0
           /\ chs[Len(chs)].endPage = totalPages - 1
           /\ \A k \in 1..(Len(chs) - 1) : chs[k + 1].startPage = chs[k].endPage + 1

\* a book of more than 30 pages came out of the fourth tier as two sections
C12_Witness ==
    /\ Returned
    /\ ~hasApiKey
    /\ linkChapters = Null
    /\ Len(pages) > 30
    /\ structure.detectionMethod = "fixed-chunks"
    /\ Len(structure.chapters) = 2

\* the chapters of the first tier that met its minimum, whatever the metadata call did
AcceptedChapters ==
    IF Count(linkChapters) >= 3 THEN linkChapters.chapters
    ELSE IF Count(titleResult) >= 2 THEN titleResult.chapters
    ELSE IF Count(llmChapters) >= 2 THEN llmChapters.chapters
    ELSE fixedChunks(pages)

\* the metadata call threw, or was not made for want of credentials
MetadataFailed == ~hasApiKey \/ "metadata" \in threwIn

\* C21: a failed metadata call (or missing credentials) never blocks or changes the
\* detection: the run still returns, with the chapters and the detectionMethod of the
\* first tier that met its minimum, the title "Untitled Book" and no author.
C21_MetadataFailureHarmless ==
    /\ ("metadata" \in threwIn => Returned)
    /\ (Returned =>
          /\ structure.chapters = AcceptedChapters
          /\ structure.detectionMethod = invoked[Len(invoked)]
          /\ ((MetadataFailed /\ structure.detectionMethod # "title-match") =>
                /\ structure.title = "Untitled Book"
                /\ structure.author = <<>>))

\* the metadata call threw after the third tier was accepted
C21_Witness ==
    /\ Returned
    /\ hasApiKey
    /\ "metadata" \in threwIn
    /\ structure.detectionMethod = "llm-detection"
    /\ structure.chapters = llmChapters.chapters
    /\ Len(structure.chapters) >= 2
    /\ structure.title = "Untitled Book"

\* the generation requests of extractBookMetadata: one per call when credentials are
\* configured, none otherwise (the early return of the function)
MetaGenerations == IF hasApiKey THEN metaCalls ELSE 0

\* C22 as stated: extractBookMetadata is called only when the accepted tier is neither
\* pdf-links nor title-match: no call on a run that returns one of these two, exactly
\* one on a run that returns llm-detection or fixed-chunks.
C22_NoMetadataCallForTier1And2 ==
    Returned =>
        metaCalls = IF structure.detectionMethod \in {"pdf-links", "title-match"}
                    THEN 0 ELSE 1

\* C22 (amended): extractBookMetadata is called on every run but the title-match ones:
\* no call on a run that returns title-match, exactly one on a run that returns
\* pdf-links, llm-detection or fixed-chunks, after the tier was accepted; the call
\* issues its generation request only when credentials are configured.
C22_MetadataCallUnlessTitleMatch ==
    /\ (~Returned => metaCalls = 0)
    /\ (Returned =>
          /\ metaCalls = IF structure.detectionMethod = "title-match" THEN 0 ELSE 1
          /\ MetaGenerations = IF structure.detectionMethod = "title-match" \/ ~hasApiKey
                               THEN 0 ELSE 1
          /\ (structure.detectionMethod = "title-match" =>
                structure.title = titleResult.title /\ structure.author = titleResult.author))

\* a run accepted the link annotations and asked for the title and the author
C22_Witness ==
    /\ Returned
    /\ hasApiKey
    /\ structure.detectionMethod = "pdf-links"
    /\ metaCalls = 1
    /\ structure.title = "My Book"

\* both runs of detectBookStructure have returned
BothReturned == firstRun # NoStructure /\ Returned

DeterministicTiers == {"pdf-links", "fixed-chunks"}

C29_BoundariesInsideDocument ==
    Returned =>
        \A i \in 1..Len(structure.chapters) :
            /\ 0 <= structure.chapters[i].startPage
            /\ structure.chapters[i].endPage <= Len(pages) - 1

\* detectFromPdfLinks has been called on the given buffer
PdfLinksCalled == given.tier = "pdf-links" /\ invoked = <<"pdf-links">>

\* the destination pages of the links the scan collected
LinkDests(links) == {links[i].destPage : i \in 1..Len(links)}

\* the text of the first link, in scan order, that points at page d
FirstSeenText(links, d) ==
    links[CHOOSE i \in 1..Len(links) :
            /\ links[i].destPage = d
            /\ \A j \in 1..(i - 1) : links[j].destPage # d].text

\* C24: detectFromPdfLinks returns chapters exactly when the buffer parses and its links
\* point at 3 or more distinct pages; then there is one chapter per distinct destination
\* page, titled with the first-seen text of that page, in ascending order of page, each
\* endPage the next startPage - 1 and the last endPage the final page of the document.
\* A parsing error yields no result.
C24_PdfLinksResult ==
    PdfLinksCalled =>
        LET pdf == given.pdf
            links == scanLinks(pdf)
            dests == LinkDests(links)
            chs == linkChapters.chapters
        IN /\ (pdf.threw => linkChapters = Null)
           /\ (linkChapters.ok <=> (~pdf.threw /\ Cardinality(dests) >= 3))
           /\ (linkChapters.ok =>
                /\ Len(chs) = Cardinality(dests)
                /\ \A i \in 1..Len(chs) :
                    /\ chs[i].startPage \in dests
                    /\ chs[i].title = FirstSeenText(links, chs[i].startPage)
                    /\ (i < Len(chs) =>
                            /\ chs[i].startPage < chs[i + 1].startPage
                            /\ chs[i].endPage = chs[i + 1].startPage - 1)
                /\ chs[Len(chs)].endPage = pdf.numPages - 1)

\* four links to three pages: page 1 keeps the text of the link met first
C24_Witness ==
    /\ PdfLinksCalled
    /\ Len(scanLinks(given.pdf)) = 4
    /\ linkChapters.ok
    /\ Len(linkChapters.chapters) = 3
    /\ linkChapters.chapters[2].startPage = 1
    /\ linkChapters.chapters[2].title = <<"B">>

\* detectFromTitleMatching has been called and its generation call gave the given answer
TitleMatchingCalled ==
    /\ given.tier = "title-match"
    /\ invoked = <<"title-match">>
    /\ titleMatchingCalls(pages, hasApiKey)

\* the 0-based pages whose normalized text contains the normalized title
PagesHolding(title) ==
    {p \in 0..(Len(pages) - 1) :
        includes(normalize(PageProbe(pages[p + 1])), normalize(title))}

\* the positions in the returned titles of those that are located
LocatedTitles(titles) ==
    {i \in 1..Len(titles) :
        Len(normalize(titles[i])) > 5 /\ PagesHolding(titles[i]) # {}}

\* C25: in detectFromTitleMatching a title is located only if its normalized form has
\* more than 5 characters, and then at the lowest page whose normalized text contains
\* it; the tier yields a result exactly when the call returned 2 or more titles of
\* which 2 or more were located, with one chapter per located title.
C25_TitleMatchingResult ==
    TitleMatchingCalled =>
        LET toc == given.toc
            located == LocatedTitles(toc.chapterTitles)
            chs == titleResult.chapters
        IN /\ (titleResult.ok <=>
                    /\ ~toc.threw
                    /\ Len(toc.chapterTitles) >= 2
                    /\ Cardinality(located) >= 2)
           /\ (~titleResult.ok => titleResult = Null)
           /\ (titleResult.ok =>
                /\ Len(chs) = Cardinality(located)
                /\ \A k \in 1..Len(chs) :
                    /\ Len(normalize(chs[k].title)) > 5
                    /\ \E i \in located : toc.chapterTitles[i] = chs[k].title
                    /\ chs[k].startPage \in PagesHolding(chs[k].title)
                    /\ \A p \in PagesHolding(chs[k].title) : chs[k].startPage <= p)

\* three titles returned, the one of five characters is on a page and is not located
C25_Witness ==
    /\ TitleMatchingCalled
    /\ Len(given.toc.chapterTitles) = 3
    /\ PagesHolding(ShortTitle) # {}
    /\ titleResult.ok
    /\ Len(titleResult.chapters) = 2
    /\ \A k \in 1..2 : titleResult.chapters[k].title # ShortTitle

\* detectFromLlmSampling has been called and its generation call gave the given answer
LlmSamplingCalled == given.tier = "llm-detection" /\ invoked = <<"llm-detection">>

\* the 0-based pages the pattern matches
PagesMatching(source) ==
    {p \in 0..(Len(pages) - 1) : matchOffsets(pages[p + 1], source) # {}}

\* the pattern compiles and matches on 2 or more pages
PatternUsable(pattern) == pattern.valid /\ Cardinality(PagesMatching(pattern.source)) >= 2

\* C26: detectFromLlmSampling makes its call only with credentials and 10 or more
\* pages, and yields chapters exactly when the call returned 2 or more boundaries.
\* With a pattern that compiles and matches on 2 or more pages the chapters are one per
\* matching page, in page order; otherwise they are the returned boundaries in
\* ascending order of pageNumber, each with startPage = pageNumber - 1.
C26_LlmSamplingResult ==
    LlmSamplingCalled =>
        LET resp == given.sampling
            chs == llmChapters.chapters
            matching == PagesMatching(resp.pattern.source)
        IN /\ (llmChapters.ok <=>
                    /\ hasApiKey
                    /\ Len(pages) >= 10
                    /\ ~resp.threw
                    /\ Len(resp.boundaries) >= 2)
           /\ (~llmChapters.ok => llmChapters = Null)
           /\ ((llmChapters.ok /\ PatternUsable(resp.pattern)) =>
                /\ Len(chs) = Cardinality(matching)
                /\ \A k \in 1..Len(chs) : chs[k].startPage \in matching
                /\ \A k \in 1..(Len(chs) - 1) : chs[k].startPage < chs[k + 1].startPage)
           /\ ((llmChapters.ok /\ ~PatternUsable(resp.pattern)) =>
                /\ Len(chs) = Len(resp.boundaries)
                /\ \A k \in 1..(Len(chs) - 1) : chs[k].startPage <= chs[k + 1].startPage
                /\ \A i \in 1..Len(resp.boundaries) :
                    LET b == resp.boundaries[i]
                    IN Cardinality({k \in 1..Len(chs) :
                            /\ chs[k].title = b.title
                            /\ chs[k].startPage = b.pageNumber - 1})
                       = Cardinality({j \in 1..Len(resp.boundaries) :
                            resp.boundaries[j] = b}))

\* a pattern that matches one page only: the boundaries of pages 5 and 2 came back as
\* chapters starting at the 0-based pages 1 and 4
C26_Witness ==
    /\ LlmSamplingCalled
    /\ given.sampling.pattern.valid
    /\ Cardinality(PagesMatching(given.sampling.pattern.source)) = 1
    /\ PageNumbersOf(given.sampling.boundaries) = <<5, 2>>
    /\ llmChapters.ok
    /\ StartPagesOf(llmChapters.chapters) = <<1, 4>>

----------------------------------------------------------------------------
(* Claims about analyzeChaptersWithContext and analyzeChapter *)

AnalysisReturned == apc = "returned"

InFlight == {i \in Indices : task[i] = "calling"}

\* C4: the returned array has one element per input boundary, the element at index i
\* has chapterNumber i + 1 and the title, startPage and endPage of boundary i,
\* whatever the order in which the analyses of a batch completed.
C4_OutputByIndex ==
    AnalysisReturned =>
        /\ DOMAIN returned = Indices
        /\ Cardinality(DOMAIN returned) = Len(structure.chapters)
        /\ \A i \in Indices :
            /\ returned[i].written
            /\ returned[i].chapterNumber = i + 1
            /\ returned[i].title = structure.chapters[i + 1].title
            /\ returned[i].startPage = structure.chapters[i + 1].startPage
            /\ returned[i].endPage = structure.chapters[i + 1].endPage

\* two batches were returned after analyses completed out of index order
C4_Witness ==
    /\ AnalysisReturned
    /\ outOfOrder
    /\ Len(structure.chapters) > 5

\* C5: no analysis of a later batch is started until every analysis of every earlier
\* batch has settled.
C5_BatchesSequential ==
    \A i, j \in Indices :
        ((i \div 5) < (j \div 5) /\ task[j] # "idle") => task[i] = "settled"

\* a chapter of the second batch is being analysed
C5_Witness == \E j \in Indices : j >= 5 /\ task[j] = "calling"

\* C6: at most 5 generation calls are in flight at any moment.
C6_AtMostFiveInFlight == Cardinality(InFlight) <= 5

\* five calls are in flight although more chapters remain to be analysed
C6_Witness ==
    /\ Cardinality(InFlight) = 5
    /\ \E j \in Indices : task[j] = "idle"

\* C7: a chapter is handed a context only if the slot of the chapter before it was
\* written when it was launched, and the context is that chapter's key concepts.
C7_ContextOnlyFromCompleted ==
    \A i \in Indices :
        ~handed[i].isNull =>
            /\ i > 0
            /\ (i - 1) \in launchedAt[i]
            /\ results[i - 1].written
            /\ handed[i].text = joinConcepts(results[i - 1].keyConcepts)

\* a chapter was handed the two key concepts of the chapter before it
C7_Witness ==
    \E i \in Indices : ~handed[i].isNull /\ Len(handed[i].text) = 3

\* C8: a first chapter of a batch other than chapter 0 is handed the key concepts
\* produced for the chapter before it; chapter 0 is handed no context.
C8_BatchHeadGetsContext ==
    \A i \in Indices :
        task[i] # "idle" =>
            /\ (i = 0 => handed[i].isNull)
            /\ ((i > 0 /\ i % 5 = 0) =>
                    /\ ~handed[i].isNull
                    /\ handed[i].text = joinConcepts(results[i - 1].keyConcepts))

\* chapter index 5 was launched with the key concepts generated for chapter index 4
C8_Witness ==
    /\ 5 \in Indices
    /\ task[5] # "idle"
    /\ outcome[4] = "generated"
    /\ handed[5].text = <<"concept 4", ", ", "idea 4">>

\* C9: every slot is written at most once and only by the task of its own chapter,
\* and when the orchestrator returns every slot has been written.
C9_SlotsWrittenOnce ==
    /\ \A k \in Indices :
        /\ Len(writes[k]) <= 1
        /\ \A w \in Range(writes[k]) : w = k
        /\ (results[k].written <=> writes[k] # <<>>)
    /\ (AnalysisReturned =>
            \A k \in Indices : Len(writes[k]) = 1 /\ returned[k].written)

\* the orchestrator returned the slots of more than one batch
C9_Witness ==
    /\ AnalysisReturned
    /\ Len(structure.chapters) = 6
    /\ \A k \in Indices : writes[k] = <<k>>

\* C10: without an API key, or when the generation call throws, analyzeChapter does not
\* raise and returns empty keyConcepts, learningObjectives and prerequisites, the
\* templated summary and estimatedReadingMinutes = max(5, round(wordCount / 250)) >= 5.
C10_FallbackAnalysis ==
    /\ apc # "threw"
    /\ \A i \in Indices :
        /\ task[i] # "rejected"
        /\ outcome[i] \in {"no-key", "threw"} =>
            LET r == results[i]
                w == chapterWordCount(pages, structure.chapters[i + 1])
                m == r.estimatedReadingMinutes
            IN /\ r.written
               /\ r.keyConcepts = <<>>
               /\ r.learningObjectives = <<>>
               /\ r.prerequisites = <<>>
               /\ r.summary = <<"Content from ">> \o structure.chapters[i + 1].title
               /\ m >= 5
               /\ \/ m = 5 /\ 2 * w + 250 < 3000
                  \/ m > 5 /\ 500 * m <= 2 * w + 250 /\ 2 * w + 250 < 500 * (m + 1)

\* the call of a chapter of more than 1375 words threw, and the fallback is above 5
C10_Witness ==
    \E i \in Indices :
        /\ outcome[i] = "threw"
        /\ results[i].written
        /\ results[i].estimatedReadingMinutes > 5

\* the result a chapter is written with when its own generation call returned `resp`
ownResult(i, resp) ==
    LET chapter == structure.chapters[i + 1]
    IN [written |-> TRUE, chapterNumber |-> i + 1, title |-> chapter.title,
        startPage |-> chapter.startPage, endPage |-> chapter.endPage,
        summary |-> IF resp.summary = <<>> THEN <<"Content from ">> \o chapter.title
                    ELSE resp.summary,
        keyConcepts |-> resp.keyConcepts,
        learningObjectives |-> resp.learningObjectives,
        prerequisites |-> resp.prerequisites,
        estimatedReadingMinutes |->
            IF resp.estimatedReadingMinutes > 0 THEN resp.estimatedReadingMinutes
            ELSE Max(5, (2 * chapterWordCount(pages, chapter) + 250) \div 500)]

\* C11: a generation call that fails for one chapter gives only that chapter the
\* fallback: no promise is rejected, the orchestrator does not throw, every chapter
\* whose own call returned holds the result of that call, the awaited batch consists
\* of running and fulfilled analyses only (so the orchestrator can always go on), and
\* it returns with every slot written.
C11_FailureStaysLocal ==
    /\ apc # "threw"
    /\ \A i \in Indices :
        /\ task[i] # "rejected"
        /\ (outcome[i] = "threw" =>
                /\ task[i] = "settled"
                /\ results[i].written
                /\ results[i].keyConcepts = <<>>
                /\ results[i].summary = <<"Content from ">> \o structure.chapters[i + 1].title)
        /\ (outcome[i] = "generated" =>
                \E resp \in AnalysisResponses(i) :
                    ~resp.threw /\ results[i] = ownResult(i, resp))
    /\ (apc = "awaiting" =>
            \A i \in BatchOf(batchStart) : task[i] \in {"calling", "resolving", "settled"})
    /\ apc \in {"loop", "awaiting", "returned"}
    /\ (AnalysisReturned => \A i \in Indices : returned[i].written)

\* one call of the first batch threw, a sibling and a chapter of the second batch
\* were written with generated key concepts, and the orchestrator returned
C11_Witness ==
    /\ AnalysisReturned
    /\ \E i, j, k \in Indices :
        /\ i < 5 /\ j < 5 /\ i < j /\ k >= 5
        /\ outcome[i] = "threw"
        /\ outcome[j] = "generated" /\ returned[j].keyConcepts # <<>>
        /\ outcome[k] = "generated" /\ returned[k].keyConcepts # <<>>

\* C27: a chapter whose index is no multiple of 5 is launched while the slot of the
\* chapter before it is still empty and is handed no context, whatever the order in
\* which the analyses settle; a context is handed only to an index 5, 10, 15, ...
C27_OnlyBatchHeadsGetContext ==
    \A i \in Indices :
        /\ ((task[i] # "idle" /\ i % 5 # 0) =>
                /\ handed[i].isNull
                /\ (i - 1) \notin launchedAt[i])
        /\ (~handed[i].isNull => (i > 0 /\ i % 5 = 0))

\* the analyses settled out of order, chapter index 5 was handed the key concepts of
\* chapter index 4, and chapter index 6, launched with it, was handed nothing and settled
C27_Witness ==
    /\ 6 \in Indices
    /\ outOfOrder
    /\ ~handed[5].isNull
    /\ handed[6].isNull
    /\ task[6] = "settled"
    /\ results[5].written

----------------------------------------------------------------------------
(* Claims about editCoursePlan *)

GenerationCalls == {"discovery", "merge", "standard"}

EditReturned == epc = "returned"

\* the last call editCoursePlan made ("none" before the first)
LastCall == IF calls = <<>> THEN "none" ELSE calls[Len(calls)]

\* C13: a failing generation call (discovery, merge or standard edit) does not make
\* editCoursePlan raise: no call of editCoursePlan ends in an exception after a
\* generation call, and the request is not answered with an error.
C13_GenerationFailureRecovered ==
    /\ (epc = "threw" => LastCall \notin GenerationCalls)
    /\ (editResponse.status = 500 => LastCall \notin GenerationCalls)

\* C14: without credentials editCoursePlan makes no generation call and no state read,
\* does not raise, and returns the input plan, no updatedBookAnalysis and the
\* explanation that automatic editing is unavailable.
C14_NoKeyReturnsInput ==
    ~hasApiKey =>
        /\ calls = <<>>
        /\ epc \in {"start", "returned"}
        /\ editResponse.status \in {0, 200}
        /\ (EditReturned =>
                /\ editResult.updatedPlan = edit.currentPlan
                /\ ~editResult.hasBookAnalysis
                /\ editResult.explanation =
                      "No API key configured - unable to edit the plan automatically.")
        /\ (editResponse.status = 200 =>
                /\ editResponse.plan = edit.currentPlan
                /\ editResponse.bookAnalysisIsNull)

\* without credentials, a report of missing content for a book with uncovered pages
\* and extracted pages at hand was answered with the input plan
C14_Witness ==
    /\ ~hasApiKey
    /\ editResponse.status = 200
    /\ edit.userInstruction = <<"M","i","s","s","i","n","g"," ","e","n","d">>
    /\ edit.bookAnalysis.totalPages = 120
    /\ Len(edit.bookAnalysis.chapters) = 2
    /\ edit.bookAnalysis.chapters[2].endPage = 99
    /\ ~edit.extractedPages.isNull /\ edit.extractedPages.pages # <<>>

\* the keywords the specification lists for the missing-content intent
ListedKeywords ==
    { <<"m","i","s","s">>, <<"m","i","s","s","i","n","g">>, <<"f","o","r","g","o","t">>,
      <<"l","e","f","t"," ","o","u","t">>,
      <<"n","o","t"," ","i","n","c","l","u","d","e","d">>,
      <<"c","u","t"," ","o","f","f">>, <<"i","n","c","o","m","p","l","e","t","e">> }

\* the instruction contains one of the keywords, in any case of letters
Mentions(keywords) ==
    \E k \in keywords : includes(toLowerCase(edit.userInstruction), k)

\* the two-step discovery flow has been entered
DiscoveryEntered ==
    \/ epc \in {"discovery", "merge"}
    \/ "discovery" \in Range(calls)
    \/ editResult.hasBookAnalysis

\* the standard edit call is the only generation call made (or about to be made)
\* and no updatedBookAnalysis is returned
StandardOnly ==
    /\ ~DiscoveryEntered
    /\ calls \in {<<>>, <<"loadUserStateDocs">>, <<"loadUserStateDocs", "standard">>}
    /\ (EditReturned => calls = <<"loadUserStateDocs", "standard">>)
    /\ (editResponse.status = 200 => editResponse.bookAnalysisIsNull)

\* C15 as stated: with credentials configured, the discovery flow is entered only for
\* instructions containing miss / missing / forgot / left out / not included / cut off /
\* incomplete; an instruction containing none of them takes the single standard edit
\* call and returns no updatedBookAnalysis.
C15_ListedKeywordsOnly ==
    hasApiKey =>
        /\ (DiscoveryEntered => Mentions(ListedKeywords))
        /\ (~Mentions(ListedKeywords) => StandardOnly)

\* C15 amended: with credentials configured, the discovery flow is entered only for
\* instructions containing miss / last chapter / missing / forgot / left out /
\* not included / cut off / incomplete (in any case of letters); an instruction
\* containing none of them takes the single standard edit call and returns no
\* updatedBookAnalysis.
C15_DiscoveryOnlyOnKeywords ==
    LET keywords == ListedKeywords \cup {<<"l","a","s","t"," ","c","h","a","p","t","e","r">>}
    IN hasApiKey =>
        /\ (DiscoveryEntered => Mentions(keywords))
        /\ (~Mentions(keywords) => StandardOnly)

\* an instruction without any keyword was answered after the standard call alone,
\* although the book has uncovered pages and extracted pages are at hand
C15_Witness ==
    /\ hasApiKey
    /\ edit.userInstruction = <<"l","e","f","t","o","u","t"," ","l","a","s","t">>
    /\ hasUncoveredPages(edit.bookAnalysis)
    /\ hasExtractedPages(edit.extractedPages)
    /\ editResponse.status = 200
    /\ calls = <<"loadUserStateDocs", "standard">>

C17_DiscoveryAddsChapters ==
    (EditReturned /\ editResult.hasBookAnalysis) =>
        Len(editResult.updatedBookAnalysis.chapters) > Len(edit.bookAnalysis.chapters)

\* C18: in every updatedBookAnalysis returned by editCoursePlan the input chapters come
\* first, unchanged and in order, the appended chapters are numbered consecutively from
\* (input chapter count + 1), and title, author, totalPages and detectionMethod are
\* those of the input.
C18_OnlyAppends ==
    (EditReturned /\ editResult.hasBookAnalysis) =>
        LET old == edit.bookAnalysis
            new == editResult.updatedBookAnalysis
            n == Len(old.chapters)
        IN /\ Len(new.chapters) >= n
           /\ \A j \in 1..n : new.chapters[j] = old.chapters[j]
           /\ \A j \in (n + 1)..Len(new.chapters) :
                /\ new.chapters[j].chapterNumber = j
                /\ new.chapters[j].title = discovery[j - n].title
                /\ new.chapters[j].startPage = discovery[j - n].startPage
                /\ new.chapters[j].endPage = discovery[j - n].endPage
           /\ new.title = old.title
           /\ new.author = old.author
           /\ new.totalPages = old.totalPages
           /\ new.detectionMethod = old.detectionMethod
           /\ (editResponse.status = 200 => editResponse.bookAnalysis = new)

\* two discovered chapters were appended to the two chapters of the input
C18_Witness ==
    /\ editResponse.status = 200
    /\ ~editResponse.bookAnalysisIsNull
    /\ Len(edit.bookAnalysis.chapters) = 2
    /\ Len(editResponse.bookAnalysis.chapters) = 4
    /\ editResponse.bookAnalysis.chapters[4].chapterNumber = 4

\* C19: every ChapterAnalysis of every BookAnalysis produced, here the
\* updatedBookAnalysis of editCoursePlan, has estimatedReadingMinutes > 0.
C19_ReadingMinutesPositive ==
    (EditReturned /\ editResult.hasBookAnalysis) =>
        \A j \in 1..Len(editResult.updatedBookAnalysis.chapters) :
            editResult.updatedBookAnalysis.chapters[j].estimatedReadingMinutes > 0

----------------------------------------------------------------------------
(* Claims about the upload request *)

\* every file has been read and the combined text has at least one page
ExtractionSucceeded ==
    /\ upc \in {"loop", "analyzing", "responded"}
    /\ fileLoop.index > Len(request.files)
    /\ ~fileLoop.primaryBuffer.isNull
    /\ Len(fileLoop.combinedPages) >= 1

\* a BookAnalysis with at least one chapter, every chapter analysed
CompleteBookAnalysis(b) ==
    LET n == Cardinality(DOMAIN b.chapters)
    IN /\ n >= 1
       /\ DOMAIN b.chapters = 0..(n - 1)
       /\ \A i \in DOMAIN b.chapters :
            /\ b.chapters[i].written
            /\ b.chapters[i].chapterNumber = i + 1
            /\ b.chapters[i].summary # <<>>
            /\ b.chapters[i].estimatedReadingMinutes > 0
       /\ b.totalPages = Len(fileLoop.combinedPages)
       /\ b.detectionMethod \in Range(TierOrder)
       /\ b.title # ""

\* C20: once text extraction has succeeded with at least one page and no persistence
\* call fails, no failure of a tier or of a chapter analysis ends the analysis and the
\* response carries a complete BookAnalysis with at least one chapter, which has been
\* persisted; if text extraction fails, the request ends in an error response and no
\* book analysis is produced or persisted.
C20_UploadAlwaysAnalysed ==
    /\ (upc = "analyzing" => ExtractionSucceeded /\ pc # "threw" /\ apc # "threw")
    /\ ((upc = "responded" /\ ExtractionSucceeded /\ "persistence" \notin uploadFailures) =>
            /\ uploadResponse.status = 200
            /\ CompleteBookAnalysis(uploadResponse.bookAnalysis)
            /\ persisted.bookAnalysis)
    /\ ("extraction" \in uploadFailures =>
            /\ upc = "responded"
            /\ uploadResponse.status = 500
            /\ ~persisted.bookAnalysis
            /\ pc = "idle"
            /\ apc = "idle")

\* two files were uploaded, the title matching and a chapter analysis threw, and the
\* response carries the book analysis
C20_Witness ==
    /\ uploadResponse.status = 200
    /\ Len(request.files) = 2
    /\ "title-match" \in threwIn
    /\ \E i \in Indices : outcome[i] = "threw"

\* the BookAnalysis of a response as a later request hands it to editCoursePlan: the
\* chapters as a list
asEditInput(b) ==
    [b EXCEPT !.chapters =
        [k \in 1..Cardinality(DOMAIN b.chapters) |-> b.chapters[k - 1]]]

\* the request uploaded a single PDF: the buffer has as many pages as the text
SinglePdf == Len(request.files) = 1 /\ numPages = Len(pages)

\* C28: a BookAnalysis that analyzeBook produced from a single PDF ends its chapter list
\* with a chapter whose endPage is totalPages - 1, whichever tier was accepted; the test
\* lastDetectedPage < totalPages - 1 of editCoursePlan is false on it.
C28_LastChapterEndsBook ==
    (uploadResponse.status = 200 /\ SinglePdf) =>
        LET b == asEditInput(uploadResponse.bookAnalysis)
        IN /\ b.totalPages = Len(pages)
           /\ Len(b.chapters) >= 1
           /\ b.chapters[Len(b.chapters)].endPage = b.totalPages - 1
           /\ lastDetectedPage(b) = b.totalPages - 1
           /\ ~hasUncoveredPages(b)

\* a single PDF of ten pages whose three link annotations were accepted
C28_Witness ==
    /\ uploadResponse.status = 200
    /\ SinglePdf
    /\ uploadResponse.bookAnalysis.detectionMethod = "pdf-links"
    /\ uploadResponse.bookAnalysis.totalPages = 10
    /\ Len(asEditInput(uploadResponse.bookAnalysis).chapters) = 3
    /\ asEditInput(uploadResponse.bookAnalysis).chapters[3].endPage = 9

\* every file of the request has been saved and read
AllFilesRead == fileLoop.index > Len(request.files)

\* C30: the handler saves the raw PDFs and extracts their text, then saves the extracted
\* pages, then analyses, then saves the book analysis: while the analysis runs the
\* extracted pages are persisted and the book analysis is not, a persisted book
\* analysis comes with persisted pages and a finished analysis, and after a failure of
\* extraction or analysis no book analysis is persisted.
C30_PersistenceOrder ==
    /\ (persisted.extractedText => (persisted.pdfs >= 1 /\ AllFilesRead))
    /\ (upc = "analyzing" => (persisted.extractedText /\ ~persisted.bookAnalysis))
    /\ (persisted.bookAnalysis =>
            /\ persisted.extractedText
            /\ apc = "returned"
            /\ upc = "responded"
            /\ uploadResponse.status = 200)
    /\ ((uploadFailures \cap {"extraction", "analysis"}) # {} =>
            /\ ~persisted.bookAnalysis
            /\ uploadResponse.status = 500)

\* two PDFs were saved and read, their pages and then the book analysis were persisted
C30_Witness ==
    /\ persisted.bookAnalysis
    /\ persisted.extractedText
    /\ persisted.pdfs = 2
    /\ uploadResponse.status = 200
    /\ uploadFailures = {}

====
